---- MODULE Spec2Model ----
(***************************************************************************)
(* A model of the uap-quic tunnelling proxy.                               *)
(*                                                                         *)
(*  Spec      the core Client life cycle (pkg/core/client.go): Start,      *)
(*            ensureQuicConnection, reconnectQuic, monitorConnection,     *)
(*            Stop, and the death of a QUIC connection.                    *)
(*  SpecSess  sessions of a running Client (handleSOCKS5Client, proxyTCP,  *)
(*            handleUDPAssociate) together with Stop and the supervisor.   *)
(*  SpecAssoc  the UDP association alone, with the fairness of its         *)
(*            goroutines.                                                  *)
(*  SpecSdk   the SDK facade (pkg/sdk/sdk.go): StartWithHost, Stop and     *)
(*            IsRunning over the package variable client.                  *)
(*  SpecAuth  the server's stream handler (cmd/server: handleStream,       *)
(*            verifyToken, handleInvalidToken) against a client that sends *)
(*            arbitrary bytes.                                             *)
(*  SpecRouter  the suffix-tree router (AddRule, ShouldProxy, splitDomain) *)
(*            on short rules and hosts.                                    *)
(*  SpecRules  Router.LoadRules on short rule files.                       *)
(*  SpecUdpHeader  buildSOCKS5UDPHeader followed by parseSOCKS5UDPHeader.  *)
(*  SpecRoute  the routing decision of handleTCPConnect.                   *)
(*  SpecProxy  the steps of proxyTCP on its stream, one session.           *)
(*  SpecSocks  the SOCKS5 front-end on one accepted connection            *)
(*            (handleSOCKS5Client, parseAddress, handleTCPConnect,         *)
(*            proxyTCP, directTCP), with the tunnel handle.                *)
(*  SpecDgram  the server's datagram loop (handleDatagrams) on one         *)
(*            inbound datagram.                                            *)
(*  SpecSrv   one QUIC connection on the server (handleConnection,         *)
(*            handleDatagrams): its three goroutines and its UDP socket.   *)
(*  SpecRelay  one UDP association of the client (handleUDPAssociate) with *)
(*            its two loops, on a tunnel that dies and is replaced;        *)
(*            SpecRelayLive adds the fairness of the write loop.           *)
(*  SpecShared  two UDP associations on one tunnel connection.             *)
(*  SpecAccept  the accept goroutine and the main loop of Client.Start     *)
(*            with Client.Stop.                                            *)
(*  SpecAlone  the standalone client (cmd/client/main.go): quicConn, the   *)
(*            monitor and the proxied sessions.                            *)
(***************************************************************************)
EXTENDS Integers, Sequences, FiniteSets, TLC

\* ------------------------------------------------------------------------
\* Bounds of the model
\* ------------------------------------------------------------------------
MaxStarts == 2       \* calls of Client.Start on the one instance
MaxStops == 2        \* calls of Client.Stop on the one instance
MaxConns == 2        \* QUIC connections a run can establish
MaxTcp == 1          \* proxied TCP sessions next to the one UDP association
MaxInstances == 3    \* calls of sdk.StartWithHost
MaxQueries == 2      \* calls of sdk.IsRunning
TokenLen == 1        \* length of the token the model's server is configured with
MaxSend == 4         \* bytes a client sends on one stream
MaxStreams == 2      \* streams the server handles, one after the other
MaxLen == 3          \* length of a rule or host given to the router
MaxRules == 2        \* calls of Router.AddRule
MaxFile == 4         \* bytes of a rule file
MaxPayload == 2      \* bytes of a UDP payload
MaxCopy == 2         \* chunks a copy of proxyTCP moves in one direction
MaxRedials == 2      \* dials of the tunnel while one SOCKS5 connection is served
MaxSrvStreams == 3   \* streams a QUIC connection of the server accepts
MaxSrvDgrams == 3    \* datagrams a QUIC connection of the server receives
MaxRelayConns == 2   \* tunnel connections while the associations run
MaxAccepts == 3      \* connections the listener accepts
MaxQueued == 2       \* room in connChan (10 in the code)
MaxSessions == 2     \* proxied sessions of the standalone client
MaxDials == 3        \* connections the standalone client dials

\* ------------------------------------------------------------------------
\* Program constants
\* ------------------------------------------------------------------------
NL == 10             \* '\n', the delimiter of reader.ReadString
DelayBase == 2       \* handleInvalidToken: 2 + rand.Intn(3) seconds
DelaySpan == 3
Dot == 46            \* '.', the separator of splitDomain
Hash == 35           \* '#', the comment prefix of LoadRules
CR == 13             \* '\r', dropped by bufio.ScanLines at the end of a line
BufSize == 2048      \* handleUDPAssociate: buf := make([]byte, 2048)

\* ------------------------------------------------------------------------
\* Processes of the life-cycle model
\* ------------------------------------------------------------------------
Starter == "starter"            \* the goroutine that calls Client.Start
Stopper == "stopper"            \* the goroutine that calls Client.Stop
Monitors == 1..MaxStarts        \* one monitorConnection goroutine per Start
ConnIds == 1..MaxConns
LsnIds == 1..MaxStarts
TcpIds == 1..MaxTcp
InstIds == 1..MaxInstances

VARIABLES
    spc,           \* position of the goroutine in Client.Start
    mpc,           \* position of every monitorConnection goroutine
    tpc,           \* position of the goroutine in Client.Stop
    cancelled,     \* c.ctx has been cancelled (c.cancel() was called)
    quicConn,      \* c.quicConn: 0 is nil, otherwise a connection id
    quicLock,      \* holders of c.quicConnLock in write mode
    connState,     \* per connection: "unborn", "live", "dead" (its context reports an error)
    closeCalls,    \* per connection: number of CloseWithError calls
    listener,      \* c.listener: 0 is nil, otherwise a listener id
    bound,         \* the listener net.Listen returned to the running Start (0: none)
    lsnState,      \* per listener: "unborn", "open", "closed"
    lsnCloses,     \* per listener: number of Close calls
    starts,        \* number of calls of Start so far
    stopCalls,     \* number of calls of Stop so far
    stopsReturned, \* number of calls of Stop that have returned
    dialCtx        \* context of the running dial when it began: "live", "cancelled"
                   \* (c.cancel() had run), "stopped" (a Stop call had returned)

VARIABLES
    tcp,           \* per proxied TCP session: position, sockets, goroutines
    udp            \* the UDP association: position, sockets, goroutines

sessVars == <<tcp, udp>>

VARIABLES
    sdkClient,     \* the package variable client: 0 is nil, otherwise an instance
    inst,          \* per core.Client made by the SDK: position of its Start, cancelled
    pendingGo,     \* goroutines of StartWithHost that have not yet called client.Start
    sdkPanic,      \* a goroutine called Start on the nil client
    queries,       \* number of calls of IsRunning so far
    statusReply,   \* what the last IsRunning returned
    statusHeld     \* position of the held client's Start when it was asked

sdkVars == <<sdkClient, inst, pendingGo, sdkPanic, queries, statusReply, statusHeld>>

VARIABLES
    strm,          \* number of the stream being handled
    vpc,           \* position of handleStream on it
    sent,          \* the bytes the client has sent on the stream, in order
    fin,           \* the client has closed its sending side
    consumed,      \* how many of them the server has taken off the stream
    rdExpired,     \* the read deadline verifyToken set has passed
    acc,           \* the bytes bufio.Reader has buffered and not yet returned
    line,          \* what reader.ReadString returned
    lineState,     \* "pending", "ok" (a line was returned), "err"
    out,           \* the writes of the server on the stream, in order: 0 and 1 are
                   \* the status bytes, 400, 404, 500, 503 the canned responses
    delay,         \* handleInvalidToken: the delay chosen, in seconds
    slept,         \* handleInvalidToken: seconds of it that have passed
    need,          \* handleStream: the address length read
    frameReads,    \* handleStream: bytes of the destination frame read
    dialed,        \* handleStream: net.Dial was called
    delaysSeen     \* the delays chosen so far, over all streams

authVars == <<strm, vpc, sent, fin, consumed, rdExpired, acc, line, lineState, out,
              delay, slept, need, frameReads, dialed, delaysSeen>>

VARIABLES
    root,          \* Router.root: [nodes, ends], a node being its path of labels
    rules,         \* the strings AddRule was called with
    qAsked,        \* ShouldProxy was called
    qHost,         \* with this host
    qRes           \* and returned this

routerVars == <<root, rules, qAsked, qHost, qRes>>

VARIABLES
    fileExists,    \* the rule file is there
    fileText,      \* its bytes
    loadState      \* LoadRules: "none" (not called), "ok" (returned nil)

ruleFileVars == <<fileExists, fileText, loadState>>

VARIABLES
    upc,           \* "none", "chosen", "built", "parsed"
    uIp,           \* sourceAddr.IP, a sequence of 4 or 16 bytes
    uPort,         \* sourceAddr.Port
    uPayload,      \* payload
    wire,          \* what buildSOCKS5UDPHeader returned
    parsed         \* what parseSOCKS5UDPHeader returned: [ok, ip, domain, port, payload, reads]

udpHdrVars == <<upc, uIp, uPort, uPayload, wire, parsed>>

VARIABLES
    cMode,         \* Client.mode ("unset" before NewClient)
    reqState,      \* handleTCPConnect: "none", "err" (parseAddress failed), "ok"
    reqHost,       \* the host of the parsed address
    invoked        \* the calls of proxyTCP and directTCP it made, in order

routeVars == <<cMode, reqState, reqHost, invoked>>

VARIABLES
    ppc,           \* position of proxyTCP: "token", "auth", "len", "addr", "dial",
                   \* "reply", "copy", "done"
    strmW,         \* its writes to the stream, in order: [what, ok]
    statusR,       \* the status bytes it read (-1: the read failed)
    sockW,         \* its writes to clientConn: "reply04", "reply00", "data"
    upc2           \* the goroutine copying clientConn -> stream: "none", "run", "exit"

pxVars == <<ppc, strmW, statusR, sockW, upc2>>

\* The SOCKS5 front-end: one accepted connection.
VARIABLES hpc, ver1, head, parseRes, targetLen, route, openRes, cliW, stW, dials, binds,
          tunnel, tunnelDials
socksVars == <<hpc, ver1, head, parseRes, targetLen, route, openRes, cliW, stW, dials, binds,
               tunnel, tunnelDials>>

\* The server's datagram loop: one inbound QUIC datagram.
VARIABLES
    dpc,           \* "recv", "got", "done", "replied"
    dgram,         \* the datagram conn.ReceiveDatagram returned
    dres,          \* the resolver's answer for a domain; <<>> is an error
    dparsed,       \* what parseSOCKS5UDPHeader returned
    dsent,         \* the calls of udpConn.WriteToUDP: [ip, port, payload]
    dback          \* the datagrams sent back to the client
dgramVars == <<dpc, dgram, dres, dparsed, dsent, dback>>

VARIABLES
    sConn,         \* the QUIC connection: "live", "closed"
    sAccept,       \* the AcceptStream loop: "run", "exit"
    sHD,           \* handleDatagrams: "setup", "wait" (wg.Wait), "returned"
    sC2T,          \* the ReceiveDatagram loop: "none", "run", "exit"
    sT2C,          \* the ReadFromUDP loop: "none", "run", "exit"
    sUdp,          \* the UDP socket: "none", "open", "closed"
    sHC,           \* handleConnection: "wait" (wg.Wait), "returned"
    sStreams,      \* streams accepted
    sFwd,          \* datagrams received from the client
    sBack          \* answers read from the UDP socket
srvVars == <<sConn, sAccept, sHD, sC2T, sT2C, sUdp, sHC, sStreams, sFwd, sBack>>

VARIABLES
    rTunnel,       \* c.quicConn: 0 (nil) or the connection stored last
    rLive,         \* the connections that are not closed
    rDown,         \* per connection: the datagram of the server in flight, or NoDgram
    apc,           \* per association: "idle", "replied", "run", "ended"
    aSock,         \* the local UDP socket: [st |-> "none"/"open"/"closed", port]
    aReply,        \* what was written to the controlling TCP socket
    aConn,         \* the connection handleUDPAssociate read (conn), 0 before
    aTcp,          \* the controlling TCP socket: "open", "closed"
    aIn,           \* the read loop: "none", "run", "exit"
    aOut,          \* the write loop: "none", "run", "exit"
    aCell,         \* currentAddr: 0 (nothing stored) or the address stored last
    aLastRead,     \* the last datagram the application sent: [src, len], or NoDgram
    aLastUp,       \* the last conn.SendDatagram: [len, conn, ok], or NoDgram
    aSentUp,       \* a datagram of the association reached the server
    aLastDown      \* the last datagram the write loop received: [for, len, conn, to]
                   \* (to = 0: dropped), or NoDgram
relayVars == <<rTunnel, rLive, rDown, apc, aSock, aReply, aConn, aTcp, aIn, aOut, aCell,
               aLastRead, aLastUp, aSentUp, aLastDown>>

\* Two associations; the first alone is followed in full, both on their
\* shared tunnel.
Assocs == {1, 2}
First == {1}
RelayConns == 1..MaxRelayConns
NoDgram == [len |-> -1]

VARIABLES
    kCtx,          \* c.ctx is cancelled
    kLsn,          \* the listener: "open", "closed"
    kAcc,          \* the accept goroutine: "accept", "send" (in its select), "exit"
    kHeld,         \* the socket the accept goroutine holds (0: none)
    kChan,         \* connChan
    kErr,          \* errChan holds an error
    kMain,         \* the main loop: "loop", "returned"
    kSock,         \* per accepted socket: "unborn", "open", "handled", "closed"
    kStop          \* Client.Stop: "none", "cancelled", "done"
acceptVars == <<kCtx, kLsn, kAcc, kHeld, kChan, kErr, kMain, kSock, kStop>>

VARIABLES
    gMain,         \* main: "init" (before ensureQuicConnection), "serving"
    gConn,         \* quicConn: 0 is nil, otherwise a connection id
    gLive,         \* the connections that are open
    gDials,        \* connections dialed so far
    gMon,          \* monitorConnection: "sleep", "need" (needsReconnect is true)
    gSes,          \* per session, handleProxyConnection: "start", "nil" (it read
                   \* nil), "have", "failed"
    gSesConn       \* per session: the connection it uses
aloneVars == <<gMain, gConn, gLive, gDials, gMon, gSes, gSesConn>>

AloneSessions == 1..MaxSessions

frontVars == <<socksVars, dgramVars, srvVars, relayVars, acceptVars, aloneVars>>

\* The state of the library functions' specifications.
libVars == <<routerVars, ruleFileVars, udpHdrVars, routeVars, pxVars, frontVars>>

lifeVars == <<spc, mpc, tpc, cancelled, quicConn, quicLock, connState, closeCalls,
              listener, bound, lsnState, lsnCloses, starts, stopCalls, stopsReturned,
              dialCtx>>

vars == <<lifeVars, sessVars, sdkVars, authVars, libVars>>

\* ------------------------------------------------------------------------
\* Helpers
\* ------------------------------------------------------------------------
\* c.quicConn.Context().Err() != nil  /  <-c.quicConn.Context().Done()
CtxErr(h) == connState[h] # "live"

\* The handle is present and its context reports no error.
Healthy(h) == h # 0 /\ connState[h] = "live"

NeedsReconnect_always(h) == TRUE
NeedsReconnect_never(h) == FALSE
\* monitorConnection: c.quicConn == nil || c.quicConn.Context().Err() != nil
NeedsReconnect(h) == h = 0 \/ CtxErr(h)

\* ensureQuicConnection: the handle is non-nil and its context is not done
EnsureReturnsNil(h) == h # 0 /\ ~CtxErr(h)

DialStore_clear(h, ok, new) == IF ok THEN new ELSE 0
\* reconnectQuic: c.quicConn = conn only when DialAddr returned no error
DialStore(h, ok, new) == IF ok THEN new ELSE h

AfterQuicClose_keep(h) == h
\* Stop: c.quicConn = nil after CloseWithError
AfterQuicClose(h) == 0

\* Stop: c.listener = nil after Close
AfterListenerClose(l) == 0

LiveConns == {i \in ConnIds : connState[i] = "live"}
NewConn == Cardinality({i \in ConnIds : connState[i] # "unborn"}) + 1
OpenListeners == {l \in LsnIds : lsnState[l] = "open"}
NewLsn == Cardinality({l \in LsnIds : lsnState[l] # "unborn"}) + 1

\* What quic.DialAddr(c.ctx, ...) is called with.
CtxAtDial == IF stopsReturned > 0 THEN "stopped"
             ELSE IF cancelled THEN "cancelled" ELSE "live"

\* A monitor is at the select of its loop.
AtSelect(m) == mpc[m] \in {"idle", "passed", "kept", "dialedOk", "dialedFail"}

\* ------------------------------------------------------------------------
\* Init: the state after NewClient
\* ------------------------------------------------------------------------
InitLife ==
    /\ spc = "idle"
    /\ mpc = [m \in Monitors |-> "off"]
    /\ tpc = "idle"
    /\ cancelled = FALSE
    /\ quicConn = 0
    /\ quicLock = {}
    /\ connState = [i \in ConnIds |-> "unborn"]
    /\ closeCalls = [i \in ConnIds |-> 0]
    /\ listener = 0
    /\ bound = 0
    /\ lsnState = [l \in LsnIds |-> "unborn"]
    /\ lsnCloses = [l \in LsnIds |-> 0]
    /\ starts = 0
    /\ stopCalls = 0
    /\ stopsReturned = 0
    /\ dialCtx = "live"

\* ------------------------------------------------------------------------
\* reconnectQuic's result.  quic.DialAddr returns with the write lock held: a
\* dial begun on a cancelled context fails; a dial whose context is cancelled
\* while it runs may still have completed.
\* ------------------------------------------------------------------------
DialResult(ok) ==
    /\ ok => dialCtx = "live" /\ NewConn <= MaxConns
    /\ quicConn' = DialStore(quicConn, ok, NewConn)
    /\ connState' = IF ok THEN [connState EXCEPT ![NewConn] = "live"] ELSE connState
    /\ quicLock' = {}
    /\ dialCtx' = "live"

\* ------------------------------------------------------------------------
\* Client.Start
\* ------------------------------------------------------------------------
StartCall ==
    /\ spc = "idle"
    /\ starts < MaxStarts
    /\ starts' = starts + 1
    /\ spc' = "ensure"
    /\ UNCHANGED <<sessVars, sdkVars, authVars, libVars, mpc, tpc, cancelled, quicConn, quicLock, connState, closeCalls, listener,
                   bound, lsnState, lsnCloses, stopCalls, stopsReturned, dialCtx>>

\* ensureQuicConnection: Lock, the check of the handle, and either the early
\* return (the deferred Unlock included) or the call of reconnectQuic.
EnsureQuicConnection ==
    /\ spc = "ensure"
    /\ quicLock = {}
    /\ IF EnsureReturnsNil(quicConn)
       THEN /\ spc' = "kept"
            /\ UNCHANGED <<quicConn, quicLock, dialCtx>>
       ELSE /\ spc' = "dialing"
            /\ quicConn' = 0
            /\ quicLock' = {Starter}
            /\ dialCtx' = CtxAtDial
    /\ UNCHANGED <<sessVars, sdkVars, authVars, libVars, mpc, tpc, cancelled, connState, closeCalls, listener, bound, lsnState,
                   lsnCloses, starts, stopCalls, stopsReturned>>

\* reconnectQuic returns to ensureQuicConnection, which returns to Start.
EnsureDialEnd ==
    /\ spc = "dialing"
    /\ \E ok \in BOOLEAN :
        /\ DialResult(ok)
        /\ spc' = IF ok THEN "dialedOk" ELSE "dialedFail"
    /\ UNCHANGED <<sessVars, sdkVars, authVars, libVars, mpc, tpc, cancelled, closeCalls, listener, bound, lsnState,
                   lsnCloses, starts, stopCalls, stopsReturned>>

\* go c.monitorConnection()
SpawnMonitor ==
    /\ spc \in {"kept", "dialedOk", "dialedFail"}
    /\ spc' = "listen"
    /\ mpc' = [mpc EXCEPT ![starts] = "idle"]
    /\ UNCHANGED <<sessVars, sdkVars, authVars, libVars, tpc, cancelled, quicConn, quicLock, connState, closeCalls, listener,
                   bound, lsnState, lsnCloses, starts, stopCalls, stopsReturned, dialCtx>>

\* net.Listen succeeds only while no listener of this instance holds the port.
ListenOk ==
    /\ spc = "listen"
    /\ OpenListeners = {}
    /\ bound' = NewLsn
    /\ lsnState' = [lsnState EXCEPT ![NewLsn] = "open"]
    /\ spc' = "store"
    /\ UNCHANGED <<sessVars, sdkVars, authVars, libVars, mpc, tpc, cancelled, quicConn, quicLock, connState, closeCalls, listener,
                   lsnCloses, starts, stopCalls, stopsReturned, dialCtx>>

\* net.Listen fails (the port is taken): Start returns the error.
ListenFail ==
    /\ spc = "listen"
    /\ spc' = "idle"
    /\ UNCHANGED <<sessVars, sdkVars, authVars, libVars, mpc, tpc, cancelled, quicConn, quicLock, connState, closeCalls, listener,
                   bound, lsnState, lsnCloses, starts, stopCalls, stopsReturned, dialCtx>>

\* c.listener = listener under listenerLock
StoreListener ==
    /\ spc = "store"
    /\ listener' = bound
    /\ spc' = "serving"
    /\ UNCHANGED <<sessVars, sdkVars, authVars, libVars, mpc, tpc, cancelled, quicConn, quicLock, connState, closeCalls,
                   bound, lsnState, lsnCloses, starts, stopCalls, stopsReturned, dialCtx>>

\* The main loop's select takes <-c.ctx.Done(): Start returns nil.  The listener
\* is not closed on this path.
StartReturnCancelled ==
    /\ spc = "serving"
    /\ cancelled
    /\ spc' = "idle"
    /\ bound' = 0
    /\ UNCHANGED <<sessVars, sdkVars, authVars, libVars, mpc, tpc, cancelled, quicConn, quicLock, connState, closeCalls, listener,
                   lsnState, lsnCloses, starts, stopCalls, stopsReturned, dialCtx>>

\* listener.Accept() fails and the main loop takes <-errChan: Start returns
\* (nil when the context is cancelled, the error otherwise).
StartAcceptError ==
    /\ spc = "serving"
    /\ spc' = "idle"
    /\ bound' = 0
    /\ UNCHANGED <<sessVars, sdkVars, authVars, libVars, mpc, tpc, cancelled, quicConn, quicLock, connState, closeCalls, listener,
                   lsnState, lsnCloses, starts, stopCalls, stopsReturned, dialCtx>>

\* ------------------------------------------------------------------------
\* monitorConnection
\* ------------------------------------------------------------------------
\* select takes <-c.ctx.Done(): the goroutine returns.
MonitorExit(m) ==
    /\ AtSelect(m)
    /\ cancelled
    /\ mpc' = [mpc EXCEPT ![m] = "exited"]
    /\ UNCHANGED <<sessVars, sdkVars, authVars, libVars, spc, tpc, cancelled, quicConn, quicLock, connState, closeCalls, listener,
                   bound, lsnState, lsnCloses, starts, stopCalls, stopsReturned, dialCtx>>

\* select takes <-ticker.C (Go chooses at random when the context is done too):
\* RLock, the first check, RUnlock.
MonitorTick(m) ==
    /\ AtSelect(m)
    /\ quicLock = {}
    /\ mpc' = [mpc EXCEPT ![m] = IF NeedsReconnect(quicConn) THEN "want" ELSE "passed"]
    /\ UNCHANGED <<sessVars, sdkVars, authVars, libVars, spc, tpc, cancelled, quicConn, quicLock, connState, closeCalls, listener,
                   bound, lsnState, lsnCloses, starts, stopCalls, stopsReturned, dialCtx>>

\* needsReconnect: Lock, the second check, and either the call of reconnectQuic
\* or Unlock.
MonitorRecheck(m) ==
    /\ mpc[m] = "want"
    /\ quicLock = {}
    /\ IF NeedsReconnect(quicConn)
       THEN /\ mpc' = [mpc EXCEPT ![m] = "dialing"]
            /\ quicLock' = {m}
            /\ dialCtx' = CtxAtDial
       ELSE /\ mpc' = [mpc EXCEPT ![m] = "kept"]
            /\ UNCHANGED <<quicLock, dialCtx>>
    /\ UNCHANGED <<sessVars, sdkVars, authVars, libVars, spc, tpc, cancelled, quicConn, connState, closeCalls, listener, bound,
                   lsnState, lsnCloses, starts, stopCalls, stopsReturned>>

\* reconnectQuic returns to monitorConnection: a failure is logged; Unlock.
MonitorDialEnd(m) ==
    /\ mpc[m] = "dialing"
    /\ \E ok \in BOOLEAN :
        /\ DialResult(ok)
        /\ mpc' = [mpc EXCEPT ![m] = IF ok THEN "dialedOk" ELSE "dialedFail"]
    /\ UNCHANGED <<sessVars, sdkVars, authVars, libVars, spc, tpc, cancelled, closeCalls, listener, bound, lsnState,
                   lsnCloses, starts, stopCalls, stopsReturned>>

\* ------------------------------------------------------------------------
\* Client.Stop
\* ------------------------------------------------------------------------
\* c.cancel()
StopCancel ==
    /\ tpc = "idle"
    /\ stopCalls < MaxStops
    /\ stopCalls' = stopCalls + 1
    /\ cancelled' = TRUE
    /\ tpc' = "lsn"
    /\ UNCHANGED <<sessVars, sdkVars, authVars, libVars, spc, mpc, quicConn, quicLock, connState, closeCalls, listener, bound,
                   lsnState, lsnCloses, starts, stopsReturned, dialCtx>>

\* listenerLock: if c.listener != nil { c.listener.Close(); c.listener = nil }
StopListener ==
    /\ tpc = "lsn"
    /\ IF listener # 0
       THEN /\ lsnState' = [lsnState EXCEPT ![listener] = "closed"]
            /\ lsnCloses' = [lsnCloses EXCEPT ![listener] = @ + 1]
            /\ listener' = AfterListenerClose(listener)
       ELSE UNCHANGED <<lsnState, lsnCloses, listener>>
    /\ tpc' = "quic"
    /\ UNCHANGED <<sessVars, sdkVars, authVars, libVars, spc, mpc, cancelled, quicConn, quicLock, connState, closeCalls, bound,
                   starts, stopCalls, stopsReturned, dialCtx>>

\* quicConnLock: if c.quicConn != nil { CloseWithError(0, ...); c.quicConn = nil };
\* Stop returns.
StopQuic ==
    /\ tpc = "quic"
    /\ quicLock = {}
    /\ IF quicConn # 0
       THEN /\ connState' = [connState EXCEPT ![quicConn] = "dead"]
            /\ closeCalls' = [closeCalls EXCEPT ![quicConn] = @ + 1]
            /\ quicConn' = AfterQuicClose(quicConn)
       ELSE UNCHANGED <<connState, closeCalls, quicConn>>
    /\ tpc' = "idle"
    /\ stopsReturned' = stopsReturned + 1
    /\ UNCHANGED <<sessVars, sdkVars, authVars, libVars, spc, mpc, cancelled, quicLock, listener, bound, lsnState, lsnCloses,
                   starts, stopCalls, dialCtx>>

\* ------------------------------------------------------------------------
\* The environment: a live connection's context reports an error (peer close,
\* network failure).
\* ------------------------------------------------------------------------
ConnDies(i) ==
    /\ connState[i] = "live"
    /\ connState' = [connState EXCEPT ![i] = "dead"]
    /\ UNCHANGED <<sessVars, sdkVars, authVars, libVars, spc, mpc, tpc, cancelled, quicConn, quicLock, closeCalls, listener, bound,
                   lsnState, lsnCloses, starts, stopCalls, stopsReturned, dialCtx>>

NextLife ==
    \/ StartCall
    \/ EnsureQuicConnection
    \/ EnsureDialEnd
    \/ SpawnMonitor
    \/ ListenOk
    \/ ListenFail
    \/ StoreListener
    \/ StartReturnCancelled
    \/ StartAcceptError
    \/ \E m \in Monitors : MonitorExit(m)
    \/ \E m \in Monitors : MonitorTick(m)
    \/ \E m \in Monitors : MonitorRecheck(m)
    \/ \E m \in Monitors : MonitorDialEnd(m)
    \/ StopCancel
    \/ StopListener
    \/ StopQuic
    \/ \E i \in ConnIds : ConnDies(i)

\* ------------------------------------------------------------------------
\* The SDK facade.  Of a core.Client it made, the SDK model keeps
\*   st       "new" (NewClient returned), "starting" (Start runs, before
\*            net.Listen), "serving" (the listener is bound, the main loop
\*            runs), "failed" (net.Listen failed, Start returned the error),
\*            "returned" (the main loop returned)
\*   stopped  Client.Stop was called on it (its context is cancelled)
\* ------------------------------------------------------------------------
InitSdkVars ==
    /\ sdkClient = 0
    /\ inst = [i \in InstIds |-> [st |-> "none", stopped |-> FALSE]]
    /\ pendingGo = 0
    /\ sdkPanic = FALSE
    /\ queries = 0
    /\ statusReply = FALSE
    /\ statusHeld = "none"

MadeInstances == {i \in InstIds : inst[i].st # "none"}

\* Position of the Start of the client the SDK holds.
HeldStart == IF sdkClient = 0 THEN "none" ELSE inst[sdkClient].st

\* IsRunning: return client != nil
IsRunning == sdkClient # 0

\* client.Stop() on the held instance, then client = nil
SdkStopHeld(ins) ==
    IF sdkClient # 0
    THEN [ins EXCEPT ![sdkClient].stopped = TRUE]
    ELSE ins

\* StartWithHost under clientLock: stop and drop the held client, make a new
\* one, start the goroutine that will call client.Start.
SdkStartWithHost ==
    /\ ~sdkPanic
    /\ Cardinality(MadeInstances) < MaxInstances
    /\ LET new == Cardinality(MadeInstances) + 1
       IN /\ inst' = [SdkStopHeld(inst) EXCEPT ![new].st = "new"]
          /\ sdkClient' = new
    /\ pendingGo' = pendingGo + 1
    /\ UNCHANGED <<lifeVars, sessVars, authVars, libVars, sdkPanic, queries, statusReply, statusHeld>>

\* The goroutine of StartWithHost evaluates client.Start(whitelistFile): it reads
\* the package variable without the lock, so it finds whatever client holds by
\* then: nil (Start on a nil *Client panics), the instance it was started for,
\* or a later one (whose Start may already be running).
SdkGoStart ==
    /\ ~sdkPanic
    /\ pendingGo > 0
    /\ pendingGo' = pendingGo - 1
    /\ IF sdkClient = 0
       THEN /\ sdkPanic' = TRUE
            /\ UNCHANGED inst
       ELSE /\ inst' = IF inst[sdkClient].st = "new"
                       THEN [inst EXCEPT ![sdkClient].st = "starting"]
                       ELSE inst
            /\ UNCHANGED sdkPanic
    /\ UNCHANGED <<lifeVars, sessVars, authVars, libVars, sdkClient, queries, statusReply, statusHeld>>

\* Client.Start: net.Listen succeeds; the main loop runs.
SdkListenOk(i) ==
    /\ ~sdkPanic
    /\ inst[i].st = "starting"
    /\ inst' = [inst EXCEPT ![i].st = "serving"]
    /\ UNCHANGED <<lifeVars, sessVars, authVars, libVars, sdkClient, pendingGo, sdkPanic, queries,
                   statusReply, statusHeld>>

\* Client.Start: net.Listen fails; Start returns the error, which the goroutine logs.
SdkListenFail(i) ==
    /\ ~sdkPanic
    /\ inst[i].st = "starting"
    /\ inst' = [inst EXCEPT ![i].st = "failed"]
    /\ UNCHANGED <<lifeVars, sessVars, authVars, libVars, sdkClient, pendingGo, sdkPanic, queries,
                   statusReply, statusHeld>>

\* Client.Start: the main loop returns on <-c.ctx.Done().
SdkStartReturnsStopped(i) ==
    /\ ~sdkPanic
    /\ inst[i].st = "serving"
    /\ inst[i].stopped
    /\ inst' = [inst EXCEPT ![i].st = "returned"]
    /\ UNCHANGED <<lifeVars, sessVars, authVars, libVars, sdkClient, pendingGo, sdkPanic, queries,
                   statusReply, statusHeld>>

\* Client.Start: the main loop returns on an Accept error.
SdkStartReturnsError(i) ==
    /\ ~sdkPanic
    /\ inst[i].st = "serving"
    /\ inst' = [inst EXCEPT ![i].st = "returned"]
    /\ UNCHANGED <<lifeVars, sessVars, authVars, libVars, sdkClient, pendingGo, sdkPanic, queries,
                   statusReply, statusHeld>>

\* sdk.Stop under clientLock: if client != nil { client.Stop(); client = nil }
SdkStop ==
    /\ ~sdkPanic
    /\ sdkClient # 0
    /\ inst' = SdkStopHeld(inst)
    /\ sdkClient' = 0
    /\ UNCHANGED <<lifeVars, sessVars, authVars, libVars, pendingGo, sdkPanic, queries, statusReply,
                   statusHeld>>

\* sdk.IsRunning under clientLock.
SdkIsRunning ==
    /\ ~sdkPanic
    /\ queries < MaxQueries
    /\ queries' = queries + 1
    /\ statusReply' = IsRunning
    /\ statusHeld' = HeldStart
    /\ UNCHANGED <<lifeVars, sessVars, authVars, libVars, sdkClient, inst, pendingGo, sdkPanic>>

NextSdk ==
    \/ SdkStartWithHost
    \/ SdkGoStart
    \/ \E i \in InstIds : SdkListenOk(i)
    \/ \E i \in InstIds : SdkListenFail(i)
    \/ \E i \in InstIds : SdkStartReturnsStopped(i)
    \/ \E i \in InstIds : SdkStartReturnsError(i)
    \/ SdkStop
    \/ SdkIsRunning

\* ------------------------------------------------------------------------
\* The server's stream handler.  Bytes are numbers; the model's client sends
\* bytes of a small alphabet: 0 and 1 (neither white space nor a token byte, and
\* length bytes), '\n', ' ' and 'a'.
\* ------------------------------------------------------------------------
Bytes == {0, 1, NL, 32, 97}

\* UAP_TOKEN, shortened to TokenLen bytes
UAP_TOKEN == [i \in 1..TokenLen |-> 97]

\* The ASCII white space strings.TrimSpace removes.
WhiteSpace == {9, 10, 11, 12, 13, 32}

RECURSIVE TrimLeft(_)
TrimLeft(s) == IF s # <<>> /\ Head(s) \in WhiteSpace THEN TrimLeft(Tail(s)) ELSE s

RECURSIVE TrimRight(_)
TrimRight(s) == IF s # <<>> /\ s[Len(s)] \in WhiteSpace
                THEN TrimRight(SubSeq(s, 1, Len(s) - 1)) ELSE s

\* strings.TrimSpace
TrimSpace(s) == TrimRight(TrimLeft(s))

TokenMatches_prefix(tok) ==
    Len(tok) >= Len(UAP_TOKEN) /\ SubSeq(tok, 1, Len(UAP_TOKEN)) = UAP_TOKEN
\* verifyToken: token == UAP_TOKEN
TokenMatches(tok) == tok = UAP_TOKEN

\* Position of the first delim in s, 0 if there is none.
RECURSIVE IndexOf(_, _)
IndexOf(s, d) == IF s = <<>> THEN 0
                 ELSE IF Head(s) = d THEN 1
                 ELSE IF IndexOf(Tail(s), d) = 0 THEN 0 ELSE 1 + IndexOf(Tail(s), d)

DelayChoices_nobase == {k : k \in 0..(DelaySpan - 1)}
\* handleInvalidToken: time.Duration(2+rand.Intn(3)) * time.Second
DelayChoices == {DelayBase + k : k \in 0..(DelaySpan - 1)}

\* handleInvalidToken: the status lines of htmlResponses
Canned == {400, 404, 500, 503}

\* handleStream is at a read of the stream.  What the client does at any other
\* time is never looked at by the handler and is left out.
Reading == vpc \in {"verify", "frame", "addr"}

\* The bytes that have arrived on the stream and were not taken yet.
Available == SubSeq(sent, consumed + 1, Len(sent))

InitStream ==
    /\ vpc = "verify"
    /\ sent = <<>>
    /\ fin = FALSE
    /\ consumed = 0
    /\ rdExpired = FALSE
    /\ acc = <<>>
    /\ line = <<>>
    /\ lineState = "pending"
    /\ out = <<>>
    /\ delay = 0
    /\ slept = 0
    /\ need = 0
    /\ frameReads = 0
    /\ dialed = FALSE

InitAuthVars ==
    /\ strm = 1
    /\ delaysSeen = {}
    /\ InitStream

\* The client sends one more byte.
ClientSend(b) ==
    /\ Reading
    /\ ~fin
    /\ Len(sent) < MaxSend
    /\ sent' = Append(sent, b)
    /\ UNCHANGED <<lifeVars, sessVars, sdkVars, libVars, strm, vpc, fin, consumed, rdExpired, acc,
                   line, lineState, out, delay, slept, need, frameReads, dialed,
                   delaysSeen>>

\* The client closes its sending side.
ClientFin ==
    /\ Reading
    /\ ~fin
    /\ fin' = TRUE
    /\ UNCHANGED <<lifeVars, sessVars, sdkVars, libVars, strm, vpc, sent, consumed, rdExpired, acc,
                   line, lineState, out, delay, slept, need, frameReads, dialed,
                   delaysSeen>>

\* Five seconds have passed since verifyToken called SetReadDeadline; nothing
\* clears the deadline afterwards.
DeadlineExpires ==
    /\ Reading
    /\ ~rdExpired
    /\ rdExpired' = TRUE
    /\ UNCHANGED <<lifeVars, sessVars, sdkVars, libVars, strm, vpc, sent, fin, consumed, acc,
                   line, lineState, out, delay, slept, need, frameReads, dialed,
                   delaysSeen>>

\* verifyToken: reader.ReadString('\n').  bufio.Reader takes all that has
\* arrived; with a '\n' in its buffer ReadString returns the line up to it (what
\* follows stays in the bufio.Reader, which is dropped).  Then the token is
\* trimmed and compared: on a match 0x00 is written and handleStream goes on,
\* otherwise handleInvalidToken starts its sleep.
VerifyRead ==
    /\ vpc = "verify"
    /\ ~rdExpired
    /\ Available # <<>>
    /\ consumed' = Len(sent)
    /\ LET buf == acc \o Available
           k == IndexOf(buf, NL)
       IN IF k = 0
          THEN /\ acc' = buf
               /\ UNCHANGED <<vpc, line, lineState, out, delay, delaysSeen>>
          ELSE /\ acc' = SubSeq(buf, k + 1, Len(buf))
               /\ line' = SubSeq(buf, 1, k)
               /\ lineState' = "ok"
               /\ IF TokenMatches(TrimSpace(SubSeq(buf, 1, k)))
                  THEN /\ out' = Append(out, 0)
                       /\ \E wrote \in BOOLEAN : vpc' = IF wrote THEN "frame" ELSE "closed"
                       /\ UNCHANGED <<delay, delaysSeen>>
                  ELSE /\ vpc' = "sleep"
                       /\ \E d \in DelayChoices :
                            /\ delay' = d
                            /\ delaysSeen' = delaysSeen \cup {d}
                       /\ UNCHANGED out
    /\ UNCHANGED <<lifeVars, sessVars, sdkVars, libVars, strm, sent, fin, rdExpired, slept, need,
                   frameReads, dialed>>

\* verifyToken: reader.ReadString fails (the deadline passed, or the stream
\* ended before a '\n'); handleInvalidToken starts its sleep.
VerifyReadFails ==
    /\ vpc = "verify"
    /\ rdExpired \/ (fin /\ Available = <<>>)
    /\ lineState' = "err"
    /\ vpc' = "sleep"
    /\ \E d \in DelayChoices :
         /\ delay' = d
         /\ delaysSeen' = delaysSeen \cup {d}
    /\ UNCHANGED <<lifeVars, sessVars, sdkVars, libVars, strm, sent, fin, consumed, rdExpired, acc,
                   line, out, slept, need, frameReads, dialed>>

\* handleInvalidToken: a second of time.Sleep(delay) passes.
SleepSecond ==
    /\ vpc = "sleep"
    /\ slept < delay
    /\ slept' = slept + 1
    /\ UNCHANGED <<lifeVars, sessVars, sdkVars, libVars, strm, vpc, sent, fin, consumed, rdExpired,
                   acc, line, lineState, out, delay, need, frameReads, dialed, delaysSeen>>

\* handleInvalidToken: the sleep is over; one of htmlResponses is written.
Respond ==
    /\ vpc = "sleep"
    /\ slept = delay
    /\ \E r \in Canned : out' = Append(out, r)
    /\ vpc' = "linger"
    /\ UNCHANGED <<lifeVars, sessVars, sdkVars, libVars, strm, sent, fin, consumed, rdExpired,
                   acc, line, lineState, delay, slept, need, frameReads, dialed, delaysSeen>>

\* handleInvalidToken: time.Sleep(100ms); verifyToken returns false; handleStream
\* returns and the deferred stream.Close() runs.
CloseAfterResponse ==
    /\ vpc = "linger"
    /\ vpc' = "closed"
    /\ UNCHANGED <<lifeVars, sessVars, sdkVars, libVars, strm, sent, fin, consumed, rdExpired,
                   acc, line, lineState, out, delay, slept, need, frameReads, dialed,
                   delaysSeen>>

\* handleStream: addressLen <= 0 || addressLen > 255 is refused.
ValidLength_zero(n) == n <= 255
ValidLength(n) == ~(n <= 0 \/ n > 255)

\* handleStream: io.ReadFull(stream, lengthBuf); a length of 0 is answered 0x01.
ReadLength ==
    /\ vpc = "frame"
    /\ ~rdExpired
    /\ Available # <<>>
    /\ consumed' = consumed + 1
    /\ frameReads' = frameReads + 1
    /\ need' = Head(Available)
    /\ IF ~ValidLength(Head(Available))
       THEN /\ out' = Append(out, 1)
            /\ vpc' = "closed"
       ELSE /\ vpc' = "addr"
            /\ UNCHANGED out
    /\ UNCHANGED <<lifeVars, sessVars, sdkVars, libVars, strm, sent, fin, rdExpired, acc, line,
                   lineState, delay, slept, dialed, delaysSeen>>

\* handleStream: the read of the length byte fails; return.
ReadLengthFails ==
    /\ vpc = "frame"
    /\ rdExpired \/ (fin /\ Available = <<>>)
    /\ vpc' = "closed"
    /\ UNCHANGED <<lifeVars, sessVars, sdkVars, libVars, strm, sent, fin, consumed, rdExpired, acc,
                   line, lineState, out, delay, slept, need, frameReads, dialed,
                   delaysSeen>>

\* handleStream: io.ReadFull(stream, addressBuf) has its addressLen bytes.
ReadAddress ==
    /\ vpc = "addr"
    /\ ~rdExpired
    /\ Len(Available) >= need
    /\ consumed' = consumed + need
    /\ frameReads' = frameReads + need
    /\ vpc' = "dial"
    /\ UNCHANGED <<lifeVars, sessVars, sdkVars, libVars, strm, sent, fin, rdExpired, acc, line,
                   lineState, out, delay, slept, need, dialed, delaysSeen>>

\* handleStream: the read of the address fails; 0x01 is written.
ReadAddressFails ==
    /\ vpc = "addr"
    /\ rdExpired \/ (fin /\ Len(Available) < need)
    /\ out' = Append(out, 1)
    /\ vpc' = "closed"
    /\ UNCHANGED <<lifeVars, sessVars, sdkVars, libVars, strm, sent, fin, consumed, rdExpired, acc,
                   line, lineState, delay, slept, need, frameReads, dialed, delaysSeen>>

\* handleStream: net.Dial("tcp", targetAddress); 0x00 on success (then the two
\* copies run), 0x01 on failure.
DialTarget ==
    /\ vpc = "dial"
    /\ dialed' = TRUE
    /\ \E ok \in BOOLEAN :
         /\ out' = Append(out, IF ok THEN 0 ELSE 1)
         /\ \E wrote \in BOOLEAN : vpc' = IF ok /\ wrote THEN "copy" ELSE "closed"
    /\ UNCHANGED <<lifeVars, sessVars, sdkVars, libVars, strm, sent, fin, consumed, rdExpired, acc,
                   line, lineState, delay, slept, need, frameReads, delaysSeen>>

\* handleStream: one direction of the copy ends; return.
CopyEnds ==
    /\ vpc = "copy"
    /\ vpc' = "closed"
    /\ UNCHANGED <<lifeVars, sessVars, sdkVars, libVars, strm, sent, fin, consumed, rdExpired, acc,
                   line, lineState, out, delay, slept, need, frameReads, dialed,
                   delaysSeen>>

\* conn.AcceptStream returns the next stream; go handleStream(stream).
NextStream ==
    /\ vpc = "closed"
    /\ strm < MaxStreams
    /\ strm' = strm + 1
    /\ vpc' = "verify"
    /\ sent' = <<>>
    /\ fin' = FALSE
    /\ consumed' = 0
    /\ rdExpired' = FALSE
    /\ acc' = <<>>
    /\ line' = <<>>
    /\ lineState' = "pending"
    /\ out' = <<>>
    /\ delay' = 0
    /\ slept' = 0
    /\ need' = 0
    /\ frameReads' = 0
    /\ dialed' = FALSE
    /\ UNCHANGED <<lifeVars, sessVars, sdkVars, libVars, delaysSeen>>

NextAuth ==
    \/ \E b \in Bytes : ClientSend(b)
    \/ ClientFin
    \/ DeadlineExpires
    \/ VerifyRead
    \/ VerifyReadFails
    \/ SleepSecond
    \/ Respond
    \/ CloseAfterResponse
    \/ ReadLength
    \/ ReadLengthFails
    \/ ReadAddress
    \/ ReadAddressFails
    \/ DialTarget
    \/ CopyEnds
    \/ NextStream

\* ------------------------------------------------------------------------
\* The router.  A string is a sequence of bytes; the model's rules and hosts
\* are over 'a', 'A', '.' and ' '.  A node of the tree is the path of labels
\* that leads to it from the root.
\* ------------------------------------------------------------------------
Chars == {97, 65, Dot, 32}

Strs == UNION {[1..n -> Chars] : n \in 0..MaxLen}

\* strings.ToLower, on ASCII
ToLower(s) == [i \in 1..Len(s) |-> IF s[i] \in 65..90 THEN s[i] + 32 ELSE s[i]]

\* strings.TrimSuffix(domain, ".")
TrimSuffixDot(s) == IF s # <<>> /\ s[Len(s)] = Dot THEN SubSeq(s, 1, Len(s) - 1) ELSE s

\* splitDomain's loop over domain[i], from index i with the current start.
RECURSIVE SplitLoop(_, _, _, _)
SplitLoop(s, i, start, parts) ==
    IF i > Len(s)
    THEN IF start <= Len(s) THEN Append(parts, SubSeq(s, start, Len(s))) ELSE parts
    ELSE IF s[i] = Dot
         THEN SplitLoop(s, i + 1, i + 1,
                        IF i > start THEN Append(parts, SubSeq(s, start, i - 1)) ELSE parts)
         ELSE SplitLoop(s, i + 1, start, parts)

splitDomain(domain) ==
    LET d == ToLower(TrimSpace(domain))
    IN IF d = <<>> THEN <<>> ELSE SplitLoop(TrimSuffixDot(d), 1, 1, <<>>)

\* parts from the last to the first
Reversed(parts) == [i \in 1..Len(parts) |-> parts[Len(parts) + 1 - i]]

NewRouter == [nodes |-> {<<>>}, ends |-> {}]

\* AddRule without its two early returns
AddRule_always(t, domain) ==
    LET path == Reversed(splitDomain(TrimSpace(domain)))
    IN [nodes |-> t.nodes \cup {SubSeq(path, 1, k) : k \in 1..Len(path)},
        ends |-> t.ends \cup {path}]

\* AddRule keeping the last rule alone
AddRule_last(t, domain) ==
    IF TrimSpace(domain) = <<>> THEN t
    ELSE LET path == Reversed(splitDomain(TrimSpace(domain)))
         IN IF path = <<>> THEN t
            ELSE [nodes |-> {<<>>} \cup {SubSeq(path, 1, k) : k \in 1..Len(path)},
                  ends |-> {path}]

\* Router.AddRule
AddRule(t, domain) ==
    IF TrimSpace(domain) = <<>> THEN t
    ELSE LET path == Reversed(splitDomain(TrimSpace(domain)))
         IN IF path = <<>> THEN t
            ELSE [nodes |-> t.nodes \cup {SubSeq(path, 1, k) : k \in 1..Len(path)},
                  ends |-> t.ends \cup {path}]

\* ShouldProxy's loop, at label k of path with the node current.
RECURSIVE Walk(_, _, _, _)
Walk(t, path, k, current) ==
    IF k > Len(path) THEN current \in t.ends
    ELSE IF current \in t.ends THEN TRUE
    ELSE IF Append(current, path[k]) \notin t.nodes THEN FALSE
    ELSE Walk(t, path, k + 1, Append(current, path[k]))

\* The loop without its test of current.isEnd
RECURSIVE WalkToEnd(_, _, _, _)
WalkToEnd(t, path, k, current) ==
    IF k > Len(path) THEN current \in t.ends
    ELSE IF Append(current, path[k]) \notin t.nodes THEN FALSE
    ELSE WalkToEnd(t, path, k + 1, Append(current, path[k]))

\* The loop returning true when the labels of the host run out
RECURSIVE WalkParent(_, _, _, _)
WalkParent(t, path, k, current) ==
    IF k > Len(path) THEN TRUE
    ELSE IF current \in t.ends THEN TRUE
    ELSE IF Append(current, path[k]) \notin t.nodes THEN FALSE
    ELSE WalkParent(t, path, k + 1, Append(current, path[k]))

ShouldProxy_exact(t, domain) ==
    /\ TrimSpace(domain) # <<>>
    /\ splitDomain(TrimSpace(domain)) # <<>>
    /\ WalkToEnd(t, Reversed(splitDomain(TrimSpace(domain))), 1, <<>>)
ShouldProxy_parent(t, domain) ==
    /\ TrimSpace(domain) # <<>>
    /\ splitDomain(TrimSpace(domain)) # <<>>
    /\ WalkParent(t, Reversed(splitDomain(TrimSpace(domain))), 1, <<>>)
\* Router.ShouldProxy
ShouldProxy(t, domain) ==
    /\ TrimSpace(domain) # <<>>
    /\ splitDomain(TrimSpace(domain)) # <<>>
    /\ Walk(t, Reversed(splitDomain(TrimSpace(domain))), 1, <<>>)

InitRouterVars ==
    /\ root = NewRouter
    /\ rules = {}
    /\ qAsked = FALSE
    /\ qHost = <<>>
    /\ qRes = FALSE

InitRuleFileVars ==
    /\ fileExists = FALSE
    /\ fileText = <<>>
    /\ loadState = "none"

NoParse == [ok |-> FALSE, ip |-> <<>>, domain |-> <<>>, port |-> 0, payload |-> <<>>,
            reads |-> {}]

InitUdpHdrVars ==
    /\ upc = "none"
    /\ uIp = <<>>
    /\ uPort = 0
    /\ uPayload = <<>>
    /\ wire = <<>>
    /\ parsed = NoParse

InitRouteVars ==
    /\ cMode = "unset"
    /\ reqState = "none"
    /\ reqHost = <<>>
    /\ invoked = <<>>

\* proxyTCP has its stream and is about to write the token.
InitPxVars ==
    /\ ppc = "token"
    /\ strmW = <<>>
    /\ statusR = <<>>
    /\ sockW = <<>>
    /\ upc2 = "none"

\* handleSOCKS5Client is about to read the greeting; no tunnel handle yet.
InitSocksVars ==
    /\ hpc = "greet"
    /\ ver1 = 0
    /\ head = <<>>
    /\ parseRes = "none"
    /\ targetLen = 0
    /\ route = "none"
    /\ openRes = "none"
    /\ cliW = <<>>
    /\ stW = <<>>
    /\ dials = 0
    /\ binds = 0
    /\ tunnel = "nil"
    /\ tunnelDials = 0

\* handleDatagrams has its UDP socket and waits in conn.ReceiveDatagram.
InitDgramVars ==
    /\ dpc = "recv"
    /\ dgram = <<>>
    /\ dres = <<>>
    /\ dparsed = NoParse
    /\ dsent = <<>>
    /\ dback = <<>>

\* handleConnection has started its two goroutines on an accepted connection.
InitSrvVars ==
    /\ sConn = "live"
    /\ sAccept = "run"
    /\ sHD = "setup"
    /\ sC2T = "none"
    /\ sT2C = "none"
    /\ sUdp = "none"
    /\ sHC = "wait"
    /\ sStreams = 0
    /\ sFwd = 0
    /\ sBack = 0

\* NewClient returned: no tunnel handle, no association.
InitRelayVars ==
    /\ rTunnel = 0
    /\ rLive = {}
    /\ rDown = [c \in RelayConns |-> NoDgram]
    /\ apc = [a \in Assocs |-> "idle"]
    /\ aSock = [a \in Assocs |-> [st |-> "none", port |-> 0]]
    /\ aReply = [a \in Assocs |-> <<>>]
    /\ aConn = [a \in Assocs |-> 0]
    /\ aTcp = [a \in Assocs |-> "open"]
    /\ aIn = [a \in Assocs |-> "none"]
    /\ aOut = [a \in Assocs |-> "none"]
    /\ aCell = [a \in Assocs |-> 0]
    /\ aLastRead = [a \in Assocs |-> NoDgram]
    /\ aLastUp = [a \in Assocs |-> NoDgram]
    /\ aSentUp = [a \in Assocs |-> FALSE]
    /\ aLastDown = [a \in Assocs |-> NoDgram]

InitAcceptVars ==
    /\ kCtx = FALSE
    /\ kLsn = "open"
    /\ kAcc = "accept"
    /\ kHeld = 0
    /\ kChan = <<>>
    /\ kErr = FALSE
    /\ kMain = "loop"
    /\ kSock = [n \in 1..MaxAccepts |-> "unborn"]
    /\ kStop = "none"

InitAloneVars ==
    /\ gMain = "init"
    /\ gConn = 0
    /\ gLive = {}
    /\ gDials = 0
    /\ gMon = "sleep"
    /\ gSes = [s \in AloneSessions |-> "start"]
    /\ gSesConn = [s \in AloneSessions |-> 0]

InitFrontVars ==
    /\ InitSocksVars
    /\ InitDgramVars
    /\ InitSrvVars
    /\ InitRelayVars
    /\ InitAcceptVars
    /\ InitAloneVars

InitLibVars ==
    /\ InitRouterVars
    /\ InitRuleFileVars
    /\ InitUdpHdrVars
    /\ InitRouteVars
    /\ InitPxVars
    /\ InitFrontVars

\* r.AddRule(domain); the tree is not changed once it is queried.
RouterAddRule(domain) ==
    /\ ~qAsked
    /\ Cardinality(rules \cup {domain}) <= MaxRules
    /\ root' = AddRule(root, domain)
    /\ rules' = rules \cup {domain}
    /\ UNCHANGED <<lifeVars, sessVars, sdkVars, authVars, frontVars, pxVars, routeVars, udpHdrVars, ruleFileVars, qAsked, qHost, qRes>>

\* r.ShouldProxy(domain).  It leaves the tree as it is, so one call per
\* behaviour shows them all.
RouterShouldProxy(domain) ==
    /\ ~qAsked
    /\ qAsked' = TRUE
    /\ qHost' = domain
    /\ qRes' = ShouldProxy(root, domain)
    /\ UNCHANGED <<lifeVars, sessVars, sdkVars, authVars, frontVars, pxVars, routeVars, udpHdrVars, ruleFileVars, root, rules>>

NextRouter ==
    \/ \E domain \in Strs : RouterAddRule(domain)
    \/ \E domain \in Strs : RouterShouldProxy(domain)

\* ------------------------------------------------------------------------
\* Rule files.  The model's files are over 'a', '#', ' ' and '\n'.
\* ------------------------------------------------------------------------
FileChars == {97, Hash, 32, NL}

Files == UNION {[1..n -> FileChars] : n \in 0..MaxFile}

\* bufio.ScanLines: the lines of the text without their '\n' and a '\r' before
\* it; a last line without '\n' counts when it is not empty.
DropCR(l) == IF l # <<>> /\ l[Len(l)] = CR THEN SubSeq(l, 1, Len(l) - 1) ELSE l

RECURSIVE ScanLines(_)
ScanLines(text) ==
    IF text = <<>> THEN <<>>
    ELSE IF IndexOf(text, NL) = 0 THEN <<DropCR(text)>>
    ELSE <<DropCR(SubSeq(text, 1, IndexOf(text, NL) - 1))>>
         \o ScanLines(SubSeq(text, IndexOf(text, NL) + 1, Len(text)))

\* LoadRules: line == "" || strings.HasPrefix(line, "#")
SkipLine(l) == TrimSpace(l) = <<>> \/ Head(TrimSpace(l)) = Hash

\* LoadRules' loop over the lines from line k on, with the tree t.
RECURSIVE LoadLoop(_, _, _)
LoadLoop(t, lines, k) ==
    IF k > Len(lines) THEN t
    ELSE LoadLoop(IF SkipLine(lines[k]) THEN t ELSE AddRule(t, TrimSpace(lines[k])),
                  lines, k + 1)

\* The lines LoadRules hands to AddRule.
LoadedLines(lines) == {TrimSpace(lines[k]) : k \in {j \in 1..Len(lines) : ~SkipLine(lines[j])}}

\* The rule file is written (before the router loads it).
WriteRuleFile(text) ==
    /\ loadState = "none"
    /\ ~fileExists
    /\ fileExists' = TRUE
    /\ fileText' = text
    /\ UNCHANGED <<lifeVars, sessVars, sdkVars, authVars, frontVars, pxVars, routeVars, udpHdrVars, routerVars, loadState>>

\* r.LoadRules(filename): a file that is not there is not an error.
RouterLoadRules ==
    /\ loadState = "none"
    /\ loadState' = "ok"
    /\ IF fileExists
       THEN /\ root' = LoadLoop(root, ScanLines(fileText), 1)
            /\ rules' = rules \cup LoadedLines(ScanLines(fileText))
       ELSE UNCHANGED <<root, rules>>
    /\ UNCHANGED <<lifeVars, sessVars, sdkVars, authVars, frontVars, pxVars, routeVars, udpHdrVars, fileExists, fileText, qAsked,
                   qHost, qRes>>

\* A host is looked up in the loaded router.
LoadedShouldProxy(domain) ==
    /\ loadState = "ok"
    /\ RouterShouldProxy(domain)

NextRules ==
    \/ \E text \in Files : WriteRuleFile(text)
    \/ RouterLoadRules
    \/ \E domain \in {<<97>>, <<97, Hash>>, <<>>} : LoadedShouldProxy(domain)

\* ------------------------------------------------------------------------
\* The SOCKS5 UDP header.  An IP is a sequence of 4 or 16 bytes (net.IP).
\* ------------------------------------------------------------------------
V4s == [1..4 -> {0, 1, 255}]

\* 16-byte addresses; those with ten zero bytes and then 0xff 0xff are the
\* IPv4-mapped ones.
V6s == {[i \in 1..16 |-> IF i = 1 THEN a ELSE IF i \in {11, 12} THEN b
                         ELSE IF i = 16 THEN c ELSE 0] : a, b, c \in {0, 1, 255}}

Ports == {0, 1, 255, 256, 65535}

Payloads == UNION {[1..n -> {0, 1}] : n \in 0..MaxPayload}

\* The answers of net.ResolveIPAddr; <<>> is an error.
Resolutions == {<<>>, <<127, 0, 0, 1>>}

\* net.IP.To4: nil is <<>>
To4(ip) ==
    IF Len(ip) = 4 THEN ip
    ELSE IF /\ Len(ip) = 16
            /\ \A i \in 1..10 : ip[i] = 0
            /\ ip[11] = 255
            /\ ip[12] = 255
         THEN SubSeq(ip, 13, 16)
         ELSE <<>>

\* net.IP.To16: nil is <<>>
To16(ip) ==
    IF Len(ip) = 4 THEN [i \in 1..16 |-> IF i <= 10 THEN 0 ELSE IF i <= 12 THEN 255 ELSE ip[i - 12]]
    ELSE IF Len(ip) = 16 THEN ip
    ELSE <<>>

PutUint16_le(v) == <<v % 256, (v \div 256) % 256>>
\* binary.BigEndian.PutUint16(portBytes, uint16(port))
PutUint16(v) == <<(v \div 256) % 256, v % 256>>

\* data[i-1] of the code (indices are counted from 1 here); an index outside
\* the slice is a panic in Go: the parse records every index it reads, and 0
\* stands for the byte that is not there.
At(data, i) == IF i \in 1..Len(data) THEN data[i] ELSE 0

\* data[from-1 : to]
Slice(data, from, to) == [k \in 1..(to - from + 1) |-> At(data, from + k - 1)]

\* binary.BigEndian.Uint16(data[at : at+2]), at counted from 1
Uint16(data, at) == At(data, at) * 256 + At(data, at + 1)

\* buildSOCKS5UDPHeader; a nil sourceAddr.IP is <<>>
buildSOCKS5UDPHeader(ip, port, payload) ==
    IF ip # <<>>
    THEN IF To4(ip) # <<>>
         THEN <<0, 0, 0, 1>> \o To4(ip) \o PutUint16(port) \o payload
         ELSE <<0, 0, 0, 4>> \o To16(ip) \o PutUint16(port) \o payload
    ELSE <<0, 0, 0, 1, 0, 0, 0, 0, 0, 0>> \o payload

\* return nil, nil, fmt.Errorf(...), after the reads made so far
ParseError(reads) == [NoParse EXCEPT !.reads = reads]

\* if len(data) < n
TooShort_loose(data, n) == Len(data) < n - 1
TooShort(data, n) == Len(data) < n

\* The port at portAt, the payload after it: return targetAddr, payload, nil
Decoded(data, ip, domain, portAt, reads) ==
    [ok |-> TRUE, ip |-> ip, domain |-> domain, port |-> Uint16(data, portAt),
     payload |-> Slice(data, portAt + 2, Len(data)),
     reads |-> reads \cup {portAt, portAt + 1} \cup ((portAt + 2)..Len(data))]

\* parseSOCKS5UDPHeader, with the resolver's answer for a domain
parseSOCKS5UDPHeader(data, resolved) ==
    IF TooShort(data, 4) THEN ParseError({})
    ELSE IF At(data, 4) = 1
    THEN IF TooShort(data, 10) THEN ParseError({4})
         ELSE Decoded(data, Slice(data, 5, 8), <<>>, 9, {4} \cup 5..8)
    ELSE IF At(data, 4) = 3
    THEN IF TooShort(data, 5) THEN ParseError({4})
         ELSE LET domainLen == At(data, 5)
              IN IF domainLen = 0 \/ domainLen > 255 THEN ParseError({4, 5})
                 ELSE IF TooShort(data, 7 + domainLen) THEN ParseError({4, 5})
                 ELSE IF resolved = <<>>
                      THEN ParseError({4, 5} \cup 6..(5 + domainLen))
                      ELSE Decoded(data, resolved, Slice(data, 6, 5 + domainLen),
                                   6 + domainLen, {4, 5} \cup 6..(5 + domainLen))
    ELSE IF At(data, 4) = 4
    THEN IF TooShort(data, 22) THEN ParseError({4})
         ELSE Decoded(data, Slice(data, 5, 20), <<>>, 21, {4} \cup 5..20)
    ELSE ParseError({4})

\* A datagram arrives from (ip, port) with a payload.
UdpDatagramArrives(ip, port, payload) ==
    /\ upc = "none"
    /\ upc' = "chosen"
    /\ uIp' = ip
    /\ uPort' = port
    /\ uPayload' = payload
    /\ UNCHANGED <<lifeVars, sessVars, sdkVars, authVars, frontVars, pxVars, routeVars, routerVars, ruleFileVars, wire,
                   parsed>>

\* buildSOCKS5UDPHeader(sourceAddr, payload)
UdpBuildHeader ==
    /\ upc = "chosen"
    /\ upc' = "built"
    /\ wire' = buildSOCKS5UDPHeader(uIp, uPort, uPayload)
    /\ UNCHANGED <<lifeVars, sessVars, sdkVars, authVars, frontVars, pxVars, routeVars, routerVars, ruleFileVars, uIp,
                   uPort, uPayload, parsed>>

\* parseSOCKS5UDPHeader(data) on what was built
UdpParseHeader ==
    /\ upc = "built"
    /\ upc' = "parsed"
    /\ \E resolved \in Resolutions : parsed' = parseSOCKS5UDPHeader(wire, resolved)
    /\ UNCHANGED <<lifeVars, sessVars, sdkVars, authVars, frontVars, pxVars, routeVars, routerVars, ruleFileVars, uIp,
                   uPort, uPayload, wire>>

NextUdpHeader ==
    \/ \E ip \in V4s \cup V6s, port \in Ports, payload \in Payloads :
           UdpDatagramArrives(ip, port, payload)
    \/ UdpBuildHeader
    \/ UdpParseHeader

\* ------------------------------------------------------------------------
\* The routing decision of handleTCPConnect.
\* ------------------------------------------------------------------------
\* "localhost", "127.0.0.1" and "::1"
Localhost == <<108, 111, 99, 97, 108, 104, 111, 115, 116>>
Loopback4 == <<49, 50, 55, 46, 48, 46, 48, 46, 49>>
Loopback6 == <<58, 58, 49>>

\* The modes given to NewClient and the hosts and rules of the model:
\* the three local names, "LOCALHOST", "localhost.", "a", "a.a", "A" and "".
Modes == {"global", "smart", "other"}

RouteHosts == {Localhost, Loopback4, Loopback6,
               <<76, 79, 67, 65, 76, 72, 79, 83, 84>>, Localhost \o <<Dot>>,
               <<97>>, <<97, Dot, 97>>, <<65>>, <<>>}

RouteRules == {<<97>>, <<97, Dot, 97>>, Localhost}

shouldProxy_noexempt(mode, t, host) ==
    IF mode = "global" THEN TRUE ELSE ShouldProxy(t, host)
\* handleTCPConnect: shouldProxy (c.proxyRouter is set by Start before the
\* listener accepts)
shouldProxy(mode, t, host) ==
    IF mode = "global"
    THEN host # Localhost /\ host # Loopback4 /\ host # Loopback6
    ELSE ShouldProxy(t, host)

\* NewClient(serverAddr, token, localPort, mode)
NewClientMode(mode) ==
    /\ cMode = "unset"
    /\ cMode' = mode
    /\ UNCHANGED <<lifeVars, sessVars, sdkVars, authVars, frontVars, pxVars, routerVars, ruleFileVars,
                   udpHdrVars, reqState, reqHost, invoked>>

\* Start: the rules are added to c.proxyRouter before any connection is accepted.
StartAddRule(domain) ==
    /\ cMode # "unset"
    /\ reqState = "none"
    /\ RouterAddRule(domain)

\* handleTCPConnect for a CONNECT request: parseAddress, then the decision and
\* the call of proxyTCP or directTCP.
HandleTCPConnect(host, parses) ==
    /\ cMode # "unset"
    /\ reqState = "none"
    /\ IF parses
       THEN /\ reqState' = "ok"
            /\ reqHost' = host
            /\ invoked' = Append(invoked, IF shouldProxy(cMode, root, host)
                                          THEN "proxyTCP" ELSE "directTCP")
       ELSE /\ reqState' = "err"
            /\ UNCHANGED <<reqHost, invoked>>
    /\ UNCHANGED <<lifeVars, sessVars, sdkVars, authVars, frontVars, pxVars, routerVars, ruleFileVars,
                   udpHdrVars, cMode>>

NextRoute ==
    \/ \E mode \in Modes : NewClientMode(mode)
    \/ \E domain \in RouteRules : StartAddRule(domain)
    \/ \E host \in RouteHosts, parses \in BOOLEAN : HandleTCPConnect(host, parses)

\* ------------------------------------------------------------------------
\* proxyTCP on its stream.  A write to the stream succeeds or fails; a read of
\* a status byte gives 0x00, another byte, or fails (-1).
\* ------------------------------------------------------------------------
StatusReads == {0, 1, -1}

\* proxyTCP: a status read passes unless err != nil || status[0] != 0x00.
StatusOk_anybyte(r) == r # -1
StatusOk(r) == r = 0

\* How many entries of the sequence s satisfy what = w.
Count(s, w) == Cardinality({k \in 1..Len(s) : s[k] = w})

LibFrame == UNCHANGED <<lifeVars, sessVars, sdkVars, authVars, frontVars, routerVars, ruleFileVars,
                        udpHdrVars, routeVars>>

\* proxyTCP: stream.Write(token + "\n"); return on an error.
PxWriteToken ==
    /\ ppc = "token"
    /\ \E ok \in BOOLEAN :
         /\ strmW' = Append(strmW, [what |-> "token", ok |-> ok])
         /\ ppc' = IF ok THEN "auth" ELSE "done"
    /\ UNCHANGED <<statusR, sockW, upc2>>
    /\ LibFrame

\* proxyTCP: io.ReadFull(stream, status); return unless it is 0x00.
PxReadAuth ==
    /\ ppc = "auth"
    /\ \E r \in StatusReads :
         /\ statusR' = Append(statusR, r)
         /\ ppc' = IF StatusOk(r) THEN "len" ELSE "done"
    /\ UNCHANGED <<strmW, sockW, upc2>>
    /\ LibFrame

\* proxyTCP: stream.Write([]byte{byte(len(addrBytes))}); its result is dropped.
PxWriteLength ==
    /\ ppc = "len"
    /\ \E ok \in BOOLEAN : strmW' = Append(strmW, [what |-> "len", ok |-> ok])
    /\ ppc' = "addr"
    /\ UNCHANGED <<statusR, sockW, upc2>>
    /\ LibFrame

\* proxyTCP: stream.Write(addrBytes); its result is dropped.
PxWriteAddress ==
    /\ ppc = "addr"
    /\ \E ok \in BOOLEAN : strmW' = Append(strmW, [what |-> "addr", ok |-> ok])
    /\ ppc' = "dial"
    /\ UNCHANGED <<statusR, sockW, upc2>>
    /\ LibFrame

\* proxyTCP: io.ReadFull(stream, status); unless it is 0x00 reply 0x05 0x04 and
\* return.
PxReadDial ==
    /\ ppc = "dial"
    /\ \E r \in StatusReads :
         /\ statusR' = Append(statusR, r)
         /\ IF StatusOk(r)
            THEN ppc' = "reply" /\ UNCHANGED sockW
            ELSE ppc' = "done" /\ sockW' = Append(sockW, "reply04")
    /\ UNCHANGED <<strmW, upc2>>
    /\ LibFrame

\* proxyTCP: the success reply 0x05 0x00; go copyBuffer(stream, clientConn) and
\* copyBuffer(clientConn, stream).
PxReplySuccess ==
    /\ ppc = "reply"
    /\ sockW' = Append(sockW, "reply00")
    /\ ppc' = "copy"
    /\ upc2' = "run"
    /\ UNCHANGED <<strmW, statusR>>
    /\ LibFrame

\* copyBuffer(stream, clientConn): a chunk of the application goes to the stream.
PxCopyUp ==
    /\ ppc = "copy"
    /\ upc2 = "run"
    /\ Count(strmW, [what |-> "payload", ok |-> TRUE]) < MaxCopy
    /\ strmW' = Append(strmW, [what |-> "payload", ok |-> TRUE])
    /\ UNCHANGED <<ppc, statusR, sockW, upc2>>
    /\ LibFrame

\* copyBuffer(stream, clientConn) returns: the read of clientConn ended (the
\* application closed its socket) or a write to the stream failed.
PxUpEnds ==
    /\ upc2 = "run"
    /\ upc2' = "exit"
    /\ UNCHANGED <<ppc, strmW, statusR, sockW>>
    /\ LibFrame

\* copyBuffer(clientConn, stream): a chunk of the server goes to clientConn.
PxCopyDown ==
    /\ ppc = "copy"
    /\ Count(sockW, "data") < MaxCopy
    /\ sockW' = Append(sockW, "data")
    /\ UNCHANGED <<ppc, strmW, statusR, upc2>>
    /\ LibFrame

\* copyBuffer(clientConn, stream) returns: the read of the stream ended or a
\* write to clientConn failed.  proxyTCP returns.
PxDownEnds ==
    /\ ppc = "copy"
    /\ ppc' = "done"
    /\ UNCHANGED <<strmW, statusR, sockW, upc2>>
    /\ LibFrame

NextProxy ==
    \/ PxWriteToken
    \/ PxReadAuth
    \/ PxWriteLength
    \/ PxWriteAddress
    \/ PxReadDial
    \/ PxReplySuccess
    \/ PxCopyUp
    \/ PxUpEnds
    \/ PxCopyDown
    \/ PxDownEnds

\* ------------------------------------------------------------------------
\* The SOCKS5 front-end of the client: one accepted connection
\* (pkg/core/client.go: handleSOCKS5Client, parseAddress, handleTCPConnect,
\* proxyTCP, directTCP, handleUDPAssociate)
\* ------------------------------------------------------------------------
\* A host text is kept as its length in bytes and whether it holds a ':' or a
\* '%' (what net.JoinHostPort looks at).
\* net.IP(ip).String() of 4 bytes: "0.0.0.0" .. "255.255.255.255".
V4Hosts == {[len |-> 7, colon |-> FALSE], [len |-> 15, colon |-> FALSE]}

\* string(domain) of the lenBuf[0] bytes that were read.
DomainLens == {0, 1, 249, 250, 255}
DomainHosts == {[len |-> n, colon |-> c] : n \in DomainLens, c \in BOOLEAN} \
                   {[len |-> 0, colon |-> TRUE]}

\* net.IP(ip).String() of 16 bytes: "::", a full address of 39 bytes, or the
\* dotted form of an IPv4-mapped address.
V6Hosts == {[len |-> 2, colon |-> TRUE], [len |-> 39, colon |-> TRUE],
            [len |-> 7, colon |-> FALSE]}

SocksPorts == {0, 65535}
SocksVers == {4, 5}
SocksCmds == {1, 2, 3}
SocksAtyps == {1, 3, 4, 5}

\* parseAddress: the hosts the switch on addrType can produce.
HostsOf(addrType) ==
    IF addrType = 1 THEN V4Hosts
    ELSE IF addrType = 3 THEN DomainHosts
    ELSE IF addrType = 4 THEN V6Hosts
    ELSE {}

\* fmt.Sprintf("%d", port): the number of digits.
RECURSIVE DecLen(_)
DecLen(n) == IF n < 10 THEN 1 ELSE 1 + DecLen(n \div 10)

\* len(net.JoinHostPort(host, port)): "[host]:port" when the host holds a ':'
\* or a '%', else "host:port".
JoinHostPortLen(host, port) ==
    host.len + (IF host.colon THEN 2 ELSE 0) + 1 + DecLen(port)

\* byte(len(addrBytes))
LengthByte(n) == n % 256

\* handleSOCKS5Client: if buf[0] != 0x05 { return }
GreetingAccepted(ver) == ver = 5

\* handleSOCKS5Client: switch head[1].
Dispatch_bind(cmd) ==
    IF cmd \in {1, 2} THEN "connect" ELSE IF cmd = 3 THEN "udp" ELSE "none"
Dispatch(cmd) ==
    IF cmd = 1 THEN "connect" ELSE IF cmd = 3 THEN "udp" ELSE "none"

\* The writes to clientConn.
MethodReply == <<5, 0>>
Reply(rep) == <<5, rep, 0, 1, 0, 0, 0, 0, 0, 0>>
UdpReply_anyaddr(localPort) == <<5, 0, 0, 1, 0, 0, 0, 0>> \o PutUint16(localPort)
UdpReply(localPort) == <<5, 0, 0, 1, 127, 0, 0, 1>> \o PutUint16(localPort)

\* proxyTCP with no handle or no stream: the reply, and what it does to the
\* tunnel handle and to the number of tunnel dials.
NoTunnel_redial(t, d) == [reply |-> Reply(1), tunnel |-> "live", dials |-> d + 1]
NoTunnel(t, d) == [reply |-> Reply(4), tunnel |-> t, dials |-> d]

SocksFrame == UNCHANGED <<lifeVars, sessVars, sdkVars, authVars, routerVars, ruleFileVars,
                          udpHdrVars, routeVars, pxVars, dgramVars,
                          srvVars,
                          relayVars,
                          acceptVars,
                          aloneVars>>

\* monitorConnection / ensureQuicConnection: with no handle, or a handle whose
\* context is done, reconnectQuic dials and stores the connection on success.
TunnelReconnect ==
    /\ tunnel # "live"
    /\ tunnelDials < MaxRedials
    /\ tunnelDials' = tunnelDials + 1
    /\ \E ok \in BOOLEAN : tunnel' = IF ok THEN "live" ELSE tunnel
    /\ UNCHANGED <<hpc, ver1, head, parseRes, targetLen, route, openRes, cliW, stW, dials,
                   binds>>
    /\ SocksFrame

\* The QUIC connection is lost: the handle stays, its context is done.
TunnelDies ==
    /\ tunnel = "live"
    /\ tunnel' = "dead"
    /\ UNCHANGED <<hpc, ver1, head, parseRes, targetLen, route, openRes, cliW, stW, dials,
                   binds, tunnelDials>>
    /\ SocksFrame

\* handleSOCKS5Client: io.ReadFull(clientConn, buf) of the 2 greeting bytes;
\* return on an error or when buf[0] != 0x05.
SocksGreeting ==
    /\ hpc = "greet"
    /\ \E ok \in BOOLEAN, ver \in SocksVers :
          IF ~ok
          THEN hpc' = "closed" /\ UNCHANGED ver1
          ELSE /\ ver1' = ver
               /\ hpc' = IF GreetingAccepted(ver) THEN "methods" ELSE "closed"
    /\ UNCHANGED <<head, parseRes, targetLen, route, openRes, cliW, stW, dials, binds,
                   tunnel, tunnelDials>>
    /\ SocksFrame

\* handleSOCKS5Client: read the methods (return on an error), then write the
\* method reply 0x05 0x00.
SocksMethods ==
    /\ hpc = "methods"
    /\ \E ok \in BOOLEAN :
          IF ok
          THEN cliW' = Append(cliW, MethodReply) /\ hpc' = "head"
          ELSE hpc' = "closed" /\ UNCHANGED cliW
    /\ UNCHANGED <<ver1, head, parseRes, targetLen, route, openRes, stW, dials, binds,
                   tunnel, tunnelDials>>
    /\ SocksFrame

\* handleSOCKS5Client: read the 4 bytes of the request (return on an error) and
\* switch on head[1]; any other command gets the reply 0x05 0x07 and the
\* deferred Close.
SocksRequest ==
    /\ hpc = "head"
    /\ \E ok \in BOOLEAN, ver \in SocksVers, cmd \in SocksCmds, atyp \in SocksAtyps :
          IF ~ok
          THEN hpc' = "closed" /\ UNCHANGED <<head, cliW>>
          ELSE /\ head' = <<ver, cmd, 0, atyp>>
               /\ IF Dispatch(cmd) = "none"
                  THEN cliW' = Append(cliW, Reply(7)) /\ hpc' = "closed"
                  ELSE hpc' = Dispatch(cmd) /\ UNCHANGED cliW
    /\ UNCHANGED <<ver1, parseRes, targetLen, route, openRes, stW, dials, binds, tunnel,
                   tunnelDials>>
    /\ SocksFrame

\* handleTCPConnect: parseAddress(clientConn, head[3]); return on its error
\* (another ATYP, or a read that fails); else the routing decision picks
\* proxyTCP or directTCP for the target.
SocksParseAddress ==
    /\ hpc = "connect"
    /\ \E readable \in BOOLEAN :
          IF HostsOf(head[4]) = {} \/ ~readable
          THEN /\ parseRes' = IF HostsOf(head[4]) = {} THEN "atyp" ELSE "read"
               /\ hpc' = "closed"
               /\ UNCHANGED <<targetLen, route>>
          ELSE \E host \in HostsOf(head[4]), port \in SocksPorts, px \in BOOLEAN :
                  /\ parseRes' = "ok"
                  /\ targetLen' = JoinHostPortLen(host, port)
                  /\ route' = IF px THEN "proxy" ELSE "direct"
                  /\ hpc' = IF px THEN "proxy" ELSE "direct"
    /\ UNCHANGED <<ver1, head, openRes, cliW, stW, dials, binds, tunnel, tunnelDials>>
    /\ SocksFrame

\* proxyTCP: getQuicConnection() is nil, or OpenStreamSync fails: reply
\* 0x05 0x04 and return.
SocksProxyOpen ==
    /\ hpc = "proxy"
    /\ \E ok \in BOOLEAN :
          IF tunnel = "nil" \/ tunnel = "dead" \/ ~ok
          THEN /\ openRes' = IF tunnel = "nil" THEN "nil" ELSE "fail"
               /\ cliW' = Append(cliW, NoTunnel(tunnel, tunnelDials).reply)
               /\ tunnel' = NoTunnel(tunnel, tunnelDials).tunnel
               /\ tunnelDials' = NoTunnel(tunnel, tunnelDials).dials
               /\ hpc' = "closed"
          ELSE /\ openRes' = "ok"
               /\ hpc' = "token"
               /\ UNCHANGED <<cliW, tunnel, tunnelDials>>
    /\ UNCHANGED <<ver1, head, parseRes, targetLen, route, stW, dials, binds>>
    /\ SocksFrame

\* proxyTCP: stream.Write(token + "\n"); return on an error.
SocksProxyToken ==
    /\ hpc = "token"
    /\ \E ok \in BOOLEAN :
          IF ok
          THEN stW' = Append(stW, [what |-> "token", n |-> TokenLen + 1]) /\ hpc' = "auth"
          ELSE hpc' = "closed" /\ UNCHANGED stW
    /\ UNCHANGED <<ver1, head, parseRes, targetLen, route, openRes, cliW, dials, binds,
                   tunnel, tunnelDials>>
    /\ SocksFrame

\* proxyTCP: read the auth status; return unless it is 0x00; then
\* stream.Write([]byte{byte(len(addrBytes))}) and stream.Write(addrBytes).
SocksProxyAuth ==
    /\ hpc = "auth"
    /\ \E st \in StatusReads :
          IF StatusOk(st)
          THEN /\ stW' = stW \o <<[what |-> "len", n |-> LengthByte(targetLen)],
                                  [what |-> "addr", n |-> targetLen]>>
               /\ hpc' = "dialst"
          ELSE hpc' = "closed" /\ UNCHANGED stW
    /\ UNCHANGED <<ver1, head, parseRes, targetLen, route, openRes, cliW, dials, binds,
                   tunnel, tunnelDials>>
    /\ SocksFrame

\* proxyTCP: read the dial status; reply 0x05 0x04 and return unless it is
\* 0x00; else reply success and copy.
SocksProxyDialStatus ==
    /\ hpc = "dialst"
    /\ \E st \in StatusReads :
          IF StatusOk(st)
          THEN cliW' = Append(cliW, Reply(0)) /\ hpc' = "splice"
          ELSE cliW' = Append(cliW, Reply(4)) /\ hpc' = "closed"
    /\ UNCHANGED <<ver1, head, parseRes, targetLen, route, openRes, stW, dials, binds,
                   tunnel, tunnelDials>>
    /\ SocksFrame

\* directTCP: net.DialTimeout; reply 0x05 0x04 and return on an error, else
\* reply success and copy.
SocksDirectDial ==
    /\ hpc = "direct"
    /\ dials' = dials + 1
    /\ \E ok \in BOOLEAN :
          IF ok
          THEN cliW' = Append(cliW, Reply(0)) /\ hpc' = "splice"
          ELSE cliW' = Append(cliW, Reply(4)) /\ hpc' = "closed"
    /\ UNCHANGED <<ver1, head, parseRes, targetLen, route, openRes, stW, binds, tunnel,
                   tunnelDials>>
    /\ SocksFrame

\* proxyTCP / directTCP: the copy toward the target returns.
SocksSpliceEnds ==
    /\ hpc = "splice"
    /\ hpc' = "closed"
    /\ UNCHANGED <<ver1, head, parseRes, targetLen, route, openRes, cliW, stW, dials, binds,
                   tunnel, tunnelDials>>
    /\ SocksFrame

\* handleUDPAssociate: parseAddress (its result is dropped), net.ListenUDP;
\* return on an error, else reply with the bound port and relay.
SocksUdpBind ==
    /\ hpc = "udp"
    /\ binds' = binds + 1
    /\ \E ok \in BOOLEAN, localPort \in SocksPorts \ {0} :
          IF ok
          THEN cliW' = Append(cliW, UdpReply(localPort)) /\ hpc' = "assoc"
          ELSE hpc' = "closed" /\ UNCHANGED cliW
    /\ UNCHANGED <<ver1, head, parseRes, targetLen, route, openRes, stW, dials, tunnel,
                   tunnelDials>>
    /\ SocksFrame

\* handleUDPAssociate returns.
SocksAssocEnds ==
    /\ hpc = "assoc"
    /\ hpc' = "closed"
    /\ UNCHANGED <<ver1, head, parseRes, targetLen, route, openRes, cliW, stW, dials, binds,
                   tunnel, tunnelDials>>
    /\ SocksFrame

NextSocks ==
    \/ TunnelReconnect
    \/ TunnelDies
    \/ SocksGreeting
    \/ SocksMethods
    \/ SocksRequest
    \/ SocksParseAddress
    \/ SocksProxyOpen
    \/ SocksProxyToken
    \/ SocksProxyAuth
    \/ SocksProxyDialStatus
    \/ SocksDirectDial
    \/ SocksSpliceEnds
    \/ SocksUdpBind
    \/ SocksAssocEnds


\* ------------------------------------------------------------------------
\* The server's datagram loop (cmd/client/main.go: handleDatagrams) on one
\* inbound datagram.  The datagrams are the prefixes of well-formed SOCKS5 UDP
\* packets (declared and real domain lengths chosen apart) and of a packet with
\* another ATYP, so that every length check meets both outcomes.
\* ------------------------------------------------------------------------
Frags == {0, 1}
DgPorts == {1, 256}
DgV4 == <<11, 12, 13, 14>>
DgV6 == [i \in 1..16 |-> 20 + i]
DgDomains == {<<97>>, <<97, 98>>}
DgDomainLens == {0, 1, 2}

FullDatagrams ==
    UNION {
        {<<0, 0, f, 1>> \o DgV4 \o PutUint16(p) \o pl, <<0, 0, f, 4>> \o DgV6 \o PutUint16(p) \o pl}
        \cup {<<0, 0, f, 3, n>> \o d \o PutUint16(p) \o pl : n \in DgDomainLens, d \in DgDomains}
        \cup {<<0, 0, f, 5, 1, 2>>}
        : f \in Frags, p \in DgPorts, pl \in Payloads}

Datagrams == UNION {{SubSeq(d, 1, n) : n \in 0..Len(d)} : d \in FullDatagrams}

DgramFrame == UNCHANGED <<lifeVars, sessVars, sdkVars, authVars, routerVars, ruleFileVars,
                          udpHdrVars, routeVars, pxVars, socksVars,
                          srvVars,
                          relayVars,
                          acceptVars,
                          aloneVars>>

\* handleDatagrams: data, err := conn.ReceiveDatagram(ctx) returns a datagram.
ReceiveDatagram(data) ==
    /\ dpc = "recv"
    /\ dpc' = "got"
    /\ dgram' = data
    /\ UNCHANGED <<dres, dparsed, dsent, dback>>
    /\ DgramFrame

\* handleDatagrams, the body of the receive loop: continue on an empty
\* datagram and on an error of parseSOCKS5UDPHeader; else
\* udpConn.WriteToUDP(payload, targetAddr).
ForwardDatagram ==
    /\ dpc = "got"
    /\ dpc' = "done"
    /\ \E resolved \in Resolutions :
          /\ dres' = resolved
          /\ IF Len(dgram) = 0
             THEN UNCHANGED <<dparsed, dsent>>
             ELSE LET r == parseSOCKS5UDPHeader(dgram, resolved)
                  IN /\ dparsed' = r
                     /\ dsent' = IF r.ok
                                 THEN Append(dsent, [ip |-> r.ip, port |-> r.port,
                                                     payload |-> r.payload])
                                 ELSE dsent
    /\ UNCHANGED <<dgram, dback>>
    /\ DgramFrame

\* handleDatagrams, the other loop: the target answers, the answer is wrapped
\* by buildSOCKS5UDPHeader and sent to the client with conn.SendDatagram.
TargetReplies(payload) ==
    /\ dpc = "done"
    /\ dsent # <<>>
    /\ dpc' = "replied"
    /\ dback' = Append(dback, buildSOCKS5UDPHeader(dsent[1].ip, dsent[1].port, payload))
    /\ UNCHANGED <<dgram, dres, dparsed, dsent>>
    /\ DgramFrame

NextDgram ==
    \/ \E data \in Datagrams : ReceiveDatagram(data)
    \/ ForwardDatagram
    \/ \E payload \in Payloads : TargetReplies(payload)


\* ------------------------------------------------------------------------
\* One QUIC connection on the server (cmd/client/main.go: handleConnection,
\* handleDatagrams): the stream-accept goroutine, the two datagram loops and
\* the UDP socket of the connection.
\* ------------------------------------------------------------------------
SrvFrame == UNCHANGED <<lifeVars, sessVars, sdkVars, authVars, routerVars, ruleFileVars,
                        udpHdrVars, routeVars, pxVars, socksVars, dgramVars,
                          relayVars,
                          acceptVars,
                          aloneVars>>

\* The errors conn.ReceiveDatagram(context.Background()) returns once the
\* connection is closed: the connection's close error.
ReceiveErrors == {"ApplicationError", "IdleTimeoutError"}

\* handleDatagrams: if err == io.EOF || err == context.Canceled { return }
ExitsReceiveLoop_any(err) == TRUE
ExitsReceiveLoop(err) == err \in {"EOF", "Canceled"}

\* The errors udpConn.ReadFromUDP returns on a closed socket.
ReadErrors == {"ErrClosed"}

\* handleDatagrams: if err == io.EOF { return }
ExitsReadLoop(err) == err = "EOF"

\* The peer closes the connection, or it times out.
SrvConnCloses ==
    /\ sConn = "live"
    /\ sConn' = "closed"
    /\ UNCHANGED <<sAccept, sHD, sC2T, sT2C, sUdp, sHC, sStreams, sFwd, sBack>>
    /\ SrvFrame

\* handleConnection, goroutine 1: conn.AcceptStream returns a stream
\* (go handleStream) or, on a closed connection, an error (return).
SrvAcceptStream ==
    /\ sAccept = "run"
    /\ IF sConn = "live"
       THEN /\ sStreams < MaxSrvStreams
            /\ sStreams' = sStreams + 1
            /\ UNCHANGED sAccept
       ELSE /\ sAccept' = "exit"
            /\ UNCHANGED sStreams
    /\ UNCHANGED <<sConn, sHD, sC2T, sT2C, sUdp, sHC, sFwd, sBack>>
    /\ SrvFrame

\* handleDatagrams: net.ListenUDP succeeded, the two loops start, wg.Wait().
SrvListenUDP ==
    /\ sHD = "setup"
    /\ sHD' = "wait"
    /\ sUdp' = "open"
    /\ sC2T' = "run"
    /\ sT2C' = "run"
    /\ UNCHANGED <<sConn, sAccept, sHC, sStreams, sFwd, sBack>>
    /\ SrvFrame

\* handleDatagrams returns: net.ListenUDP failed, or wg.Wait() returned after
\* both loops; the deferred udpConn.Close() runs.
SrvDatagramsReturn ==
    /\ \/ sHD = "setup"
       \/ sHD = "wait" /\ sC2T = "exit" /\ sT2C = "exit"
    /\ sHD' = "returned"
    /\ sUdp' = IF sUdp = "open" THEN "closed" ELSE sUdp
    /\ UNCHANGED <<sConn, sAccept, sC2T, sT2C, sHC, sStreams, sFwd, sBack>>
    /\ SrvFrame

\* The receive loop: conn.ReceiveDatagram returns a datagram (it is parsed and
\* forwarded, then the loop goes on), or an error: return on io.EOF and
\* context.Canceled, continue on any other.
SrvReceiveDatagram ==
    /\ sC2T = "run"
    /\ IF sConn = "live"
       THEN /\ sFwd < MaxSrvDgrams
            /\ sFwd' = sFwd + 1
            /\ UNCHANGED sC2T
       ELSE /\ \E err \in ReceiveErrors :
                  sC2T' = IF ExitsReceiveLoop(err) THEN "exit" ELSE "run"
            /\ UNCHANGED sFwd
    /\ UNCHANGED <<sConn, sAccept, sHD, sT2C, sUdp, sHC, sStreams, sBack>>
    /\ SrvFrame

\* The read loop: udpConn.ReadFromUDP returns an answer of a target (wrapped
\* and sent with conn.SendDatagram; an error of the send is logged and the
\* loop goes on), or an error: return on io.EOF, continue on any other.
SrvReadFromUDP ==
    /\ sT2C = "run"
    /\ IF sUdp = "open"
       THEN /\ sBack < sFwd
            /\ sBack' = sBack + 1
            /\ UNCHANGED sT2C
       ELSE /\ \E err \in ReadErrors :
                  sT2C' = IF ExitsReadLoop(err) THEN "exit" ELSE "run"
            /\ UNCHANGED sBack
    /\ UNCHANGED <<sConn, sAccept, sHD, sC2T, sUdp, sHC, sStreams, sFwd>>
    /\ SrvFrame

\* handleConnection: wg.Wait() returns after both goroutines; the deferred
\* conn.CloseWithError runs.
SrvConnectionReturns ==
    /\ sHC = "wait"
    /\ sAccept = "exit"
    /\ sHD = "returned"
    /\ sHC' = "returned"
    /\ sConn' = "closed"
    /\ UNCHANGED <<sAccept, sHD, sC2T, sT2C, sUdp, sStreams, sFwd, sBack>>
    /\ SrvFrame

NextSrv ==
    \/ SrvConnCloses
    \/ SrvAcceptStream
    \/ SrvListenUDP
    \/ SrvDatagramsReturn
    \/ SrvReceiveDatagram
    \/ SrvReadFromUDP
    \/ SrvConnectionReturns

\* ------------------------------------------------------------------------
\* UDP associations of the client on the tunnel (pkg/core/client.go:
\* handleUDPAssociate with its two goroutines).  A datagram is kept as its
\* length, and an answer of the server as the association it answers and its
\* length.
\* ------------------------------------------------------------------------
AppAddrs == {1, 2}
RelayPorts == {1025, 65535}
\* The lengths of the datagrams of the application: empty, one byte, a full
\* buffer, more than the buffer.
AppLens == {0, 1, BufSize, BufSize + 1}
AnswerLens == {1, 2}

RelayFrame == UNCHANGED <<lifeVars, sessVars, sdkVars, authVars, routerVars, ruleFileVars,
                          udpHdrVars, routeVars, pxVars, socksVars, dgramVars, srvVars,
                          acceptVars,
                          aloneVars>>

\* n, addr, err := udpConn.ReadFromUDP(buf) with buf of BufSize bytes: what
\* does not fit is dropped by the read.
ReadLen(len) == IF len > BufSize THEN BufSize ELSE len

\* currentAddr.Store(addr)
Store_first(cell, addr) == IF cell = 0 THEN addr ELSE cell
Store(cell, addr) == addr

\* The connection the loops use: conn, read once by handleUDPAssociate.
LoopConn_current(conn, current) == current
LoopConn(conn, current) == conn

\* reconnectQuic of the monitor: with no handle, or a closed one, a new
\* connection is dialed and stored.
RelayReconnect ==
    /\ rTunnel \notin rLive
    /\ rTunnel < MaxRelayConns
    /\ rTunnel' = rTunnel + 1
    /\ rLive' = rLive \cup {rTunnel + 1}
    /\ UNCHANGED <<rDown, apc, aSock, aReply, aConn, aTcp, aIn, aOut, aCell, aLastRead,
                   aLastUp, aSentUp, aLastDown>>
    /\ RelayFrame

\* A connection is closed (peer, network); what was in flight on it is lost.
RelayConnDies(c) ==
    /\ c \in rLive
    /\ rLive' = rLive \ {c}
    /\ rDown' = [rDown EXCEPT ![c] = NoDgram]
    /\ UNCHANGED <<rTunnel, apc, aSock, aReply, aConn, aTcp, aIn, aOut, aCell, aLastRead,
                   aLastUp, aSentUp, aLastDown>>
    /\ RelayFrame

\* handleUDPAssociate: net.ListenUDP on 127.0.0.1:0; return on an error; else
\* write the reply with the bound port to the controlling socket.
RelayBind(a) ==
    /\ apc[a] = "idle"
    /\ \E ok \in BOOLEAN, port \in RelayPorts :
          IF ok
          THEN /\ aSock' = [aSock EXCEPT ![a] = [st |-> "open", port |-> port]]
               /\ aReply' = [aReply EXCEPT ![a] = UdpReply(port)]
               /\ apc' = [apc EXCEPT ![a] = "replied"]
          ELSE /\ apc' = [apc EXCEPT ![a] = "ended"]
               /\ UNCHANGED <<aSock, aReply>>
    /\ UNCHANGED <<rTunnel, rLive, rDown, aConn, aTcp, aIn, aOut, aCell, aLastRead, aLastUp,
                   aSentUp, aLastDown>>
    /\ RelayFrame

\* handleUDPAssociate: conn := c.getQuicConnection(); on nil return (the
\* deferred udpConn.Close() runs); else start the two loops and block in io.Copy.
RelayGetConn(a) ==
    /\ apc[a] = "replied"
    /\ IF rTunnel = 0
       THEN /\ apc' = [apc EXCEPT ![a] = "ended"]
            /\ aSock' = [aSock EXCEPT ![a].st = "closed"]
            /\ UNCHANGED <<aConn, aIn, aOut>>
       ELSE /\ apc' = [apc EXCEPT ![a] = "run"]
            /\ aConn' = [aConn EXCEPT ![a] = rTunnel]
            /\ aIn' = [aIn EXCEPT ![a] = "run"]
            /\ aOut' = [aOut EXCEPT ![a] = "run"]
            /\ UNCHANGED aSock
    /\ UNCHANGED <<rTunnel, rLive, rDown, aReply, aTcp, aCell, aLastRead, aLastUp, aSentUp,
                   aLastDown>>
    /\ RelayFrame

\* The application closes the controlling TCP socket.
RelayAppCloses(a) ==
    /\ aTcp[a] = "open"
    /\ apc[a] # "idle"
    /\ aTcp' = [aTcp EXCEPT ![a] = "closed"]
    /\ UNCHANGED <<rTunnel, rLive, rDown, apc, aSock, aReply, aConn, aIn, aOut, aCell,
                   aLastRead, aLastUp, aSentUp, aLastDown>>
    /\ RelayFrame

\* handleUDPAssociate: io.Copy returns, cancel(), return: udpConn.Close().
RelayControlEnds(a) ==
    /\ apc[a] = "run"
    /\ aTcp[a] = "closed"
    /\ apc' = [apc EXCEPT ![a] = "ended"]
    /\ aSock' = [aSock EXCEPT ![a].st = "closed"]
    /\ UNCHANGED <<rTunnel, rLive, rDown, aReply, aConn, aTcp, aIn, aOut, aCell, aLastRead,
                   aLastUp, aSentUp, aLastDown>>
    /\ RelayFrame

\* The read loop: the application sent a datagram of len bytes from src;
\* ReadFromUDP returns it; if n > 0 the address is stored and the bytes read
\* are sent with conn.SendDatagram, whose error is dropped.
RelayIngressRead(a, src, len) ==
    /\ aIn[a] = "run"
    /\ apc[a] = "run"
    /\ aLastRead' = [aLastRead EXCEPT ![a] = [src |-> src, len |-> len]]
    /\ IF ReadLen(len) > 0
       THEN LET c == LoopConn(aConn[a], rTunnel)
            IN /\ aCell' = [aCell EXCEPT ![a] = Store(aCell[a], src)]
               /\ aLastUp' = [aLastUp EXCEPT
                                 ![a] = [len |-> ReadLen(len), conn |-> c, ok |-> c \in rLive]]
               /\ aSentUp' = [aSentUp EXCEPT ![a] = aSentUp[a] \/ c \in rLive]
       ELSE UNCHANGED <<aCell, aLastUp, aSentUp>>
    /\ UNCHANGED <<rTunnel, rLive, rDown, apc, aSock, aReply, aConn, aTcp, aIn, aOut,
                   aLastDown>>
    /\ RelayFrame

\* The read loop: ReadFromUDP returns a timeout after 5 seconds: continue.
RelayIngressTimeout(a) ==
    /\ aIn[a] = "run"
    /\ apc[a] = "run"
    /\ UNCHANGED relayVars
    /\ RelayFrame

\* The read loop returns: ctx.Err() != nil at the top of the loop, or
\* ReadFromUDP fails on the closed socket.
RelayIngressExit(a) ==
    /\ aIn[a] = "run"
    /\ apc[a] = "ended"
    /\ aIn' = [aIn EXCEPT ![a] = "exit"]
    /\ UNCHANGED <<rTunnel, rLive, rDown, apc, aSock, aReply, aConn, aTcp, aOut, aCell,
                   aLastRead, aLastUp, aSentUp, aLastDown>>
    /\ RelayFrame

\* The server sends a datagram on connection c: the answer to a datagram of
\* association a that reached it on c, or (a = 0) what some host sent to the
\* egress socket of the server unasked.
RelayServerAnswers(c, a, len) ==
    /\ c \in rLive
    /\ IF a = 0 THEN TRUE ELSE aSentUp[a] /\ aConn[a] = c
    /\ rDown[c] = NoDgram
    /\ rDown' = [rDown EXCEPT ![c] = [for |-> a, len |-> len]]
    /\ UNCHANGED <<rTunnel, rLive, apc, aSock, aReply, aConn, aTcp, aIn, aOut, aCell,
                   aLastRead, aLastUp, aSentUp, aLastDown>>
    /\ RelayFrame

\* The write loop: conn.ReceiveDatagram(ctx) returns a datagram; with an
\* address in currentAddr it is written to it on the local socket.
RelayEgressReceive(a) ==
    /\ aOut[a] = "run"
    /\ apc[a] = "run"
    /\ LET c == LoopConn(aConn[a], rTunnel)
       IN /\ c \in rLive
          /\ rDown[c] # NoDgram
          /\ aLastDown' = [aLastDown EXCEPT
                              ![a] = [for |-> rDown[c].for, len |-> rDown[c].len,
                                      conn |-> c, to |-> aCell[a]]]
          /\ rDown' = [rDown EXCEPT ![c] = NoDgram]
    /\ UNCHANGED <<rTunnel, rLive, apc, aSock, aReply, aConn, aTcp, aIn, aOut, aCell,
                   aLastRead, aLastUp, aSentUp>>
    /\ RelayFrame

\* The write loop returns: <-ctx.Done(), or ReceiveDatagram fails (the context
\* is cancelled, or the connection is closed).
RelayEgressExit(a) ==
    /\ aOut[a] = "run"
    /\ apc[a] = "ended" \/ LoopConn(aConn[a], rTunnel) \notin rLive
    /\ aOut' = [aOut EXCEPT ![a] = "exit"]
    /\ UNCHANGED <<rTunnel, rLive, rDown, apc, aSock, aReply, aConn, aTcp, aIn, aCell,
                   aLastRead, aLastUp, aSentUp, aLastDown>>
    /\ RelayFrame

NextRelay ==
    \/ RelayReconnect
    \/ \E c \in RelayConns : RelayConnDies(c)
    \/ \E a \in First : RelayBind(a)
    \/ \E a \in First : RelayGetConn(a)
    \/ \E a \in First : RelayAppCloses(a)
    \/ \E a \in First : RelayControlEnds(a)
    \/ \E a \in First, src \in AppAddrs, len \in AppLens : RelayIngressRead(a, src, len)
    \/ \E a \in First : RelayIngressTimeout(a)
    \/ \E a \in First : RelayIngressExit(a)
    \/ \E c \in RelayConns, a \in First \cup {0}, len \in AnswerLens :
          RelayServerAnswers(c, a, len)
    \/ \E a \in First : RelayEgressReceive(a)
    \/ \E a \in First : RelayEgressExit(a)

\* Both associations, each with one application address and datagrams of one
\* byte, on a tunnel that stays up.
NextShared ==
    \/ RelayReconnect
    \/ \E a \in Assocs : RelayBind(a)
    \/ \E a \in Assocs : RelayGetConn(a)
    \/ \E a \in Assocs : RelayIngressRead(a, a, 1)
    \/ \E c \in RelayConns, a \in Assocs : RelayServerAnswers(c, a, 1)
    \/ \E a \in Assocs : RelayEgressReceive(a)

\* ------------------------------------------------------------------------
\* The accept loop of Client.Start (pkg/core/client.go): the goroutine that
\* calls listener.Accept and hands the sockets over connChan, the main loop
\* that takes them, and Client.Stop.  The listener is stored and open, the
\* context is live.
\* ------------------------------------------------------------------------
AcceptFrame == UNCHANGED <<lifeVars, sessVars, sdkVars, authVars, routerVars, ruleFileVars,
                           udpHdrVars, routeVars, pxVars, socksVars, dgramVars, srvVars,
                           relayVars,
                          aloneVars>>

Accepted == {n \in 1..MaxAccepts : kSock[n] # "unborn"}

\* case connChan <- conn: ready while the channel has room.
CanSend(queue) == Len(queue) < MaxQueued

\* conn, err := listener.Accept() returns a connection of an application.
AcceptConn ==
    /\ kAcc = "accept"
    /\ kLsn = "open"
    /\ Cardinality(Accepted) < MaxAccepts
    /\ LET n == Cardinality(Accepted) + 1
       IN /\ kSock' = [kSock EXCEPT ![n] = "open"]
          /\ kHeld' = n
    /\ kAcc' = "send"
    /\ UNCHANGED <<kCtx, kLsn, kChan, kErr, kMain, kStop>>
    /\ AcceptFrame

\* listener.Accept() fails on the closed listener: errChan <- err; return.
AcceptFails ==
    /\ kAcc = "accept"
    /\ kLsn = "closed"
    /\ kErr' = TRUE
    /\ kAcc' = "exit"
    /\ UNCHANGED <<kCtx, kLsn, kHeld, kChan, kMain, kSock, kStop>>
    /\ AcceptFrame

\* select: case connChan <- conn
AcceptSend ==
    /\ kAcc = "send"
    /\ CanSend(kChan)
    /\ kChan' = Append(kChan, kHeld)
    /\ kHeld' = 0
    /\ kAcc' = "accept"
    /\ UNCHANGED <<kCtx, kLsn, kErr, kMain, kSock, kStop>>
    /\ AcceptFrame

\* select: case <-c.ctx.Done(): conn.Close(); return
AcceptCancelled ==
    /\ kAcc = "send"
    /\ kCtx
    /\ kSock' = [kSock EXCEPT ![kHeld] = "closed"]
    /\ kHeld' = 0
    /\ kAcc' = "exit"
    /\ UNCHANGED <<kCtx, kLsn, kChan, kErr, kMain, kStop>>
    /\ AcceptFrame

\* main loop: case <-c.ctx.Done(): return nil
MainCancelled ==
    /\ kMain = "loop"
    /\ kCtx
    /\ kMain' = "returned"
    /\ UNCHANGED <<kCtx, kLsn, kAcc, kHeld, kChan, kErr, kSock, kStop>>
    /\ AcceptFrame

\* main loop: case conn := <-connChan: go c.handleSOCKS5Client(conn)
MainHandle ==
    /\ kMain = "loop"
    /\ kChan # <<>>
    /\ kSock' = [kSock EXCEPT ![Head(kChan)] = "handled"]
    /\ kChan' = Tail(kChan)
    /\ UNCHANGED <<kCtx, kLsn, kAcc, kHeld, kErr, kMain, kStop>>
    /\ AcceptFrame

\* main loop: case err := <-errChan: return (nil or the error)
MainAcceptError ==
    /\ kMain = "loop"
    /\ kErr
    /\ kErr' = FALSE
    /\ kMain' = "returned"
    /\ UNCHANGED <<kCtx, kLsn, kAcc, kHeld, kChan, kSock, kStop>>
    /\ AcceptFrame

\* Client.Stop: c.cancel()
AcceptStopCancel ==
    /\ kStop = "none"
    /\ kStop' = "cancelled"
    /\ kCtx' = TRUE
    /\ UNCHANGED <<kLsn, kAcc, kHeld, kChan, kErr, kMain, kSock>>
    /\ AcceptFrame

\* Client.Stop: c.listener.Close(); c.listener = nil
AcceptStopListener ==
    /\ kStop = "cancelled"
    /\ kStop' = "done"
    /\ kLsn' = "closed"
    /\ UNCHANGED <<kCtx, kAcc, kHeld, kChan, kErr, kMain, kSock>>
    /\ AcceptFrame

NextAccept ==
    \/ AcceptConn
    \/ AcceptFails
    \/ AcceptSend
    \/ AcceptCancelled
    \/ MainCancelled
    \/ MainHandle
    \/ MainAcceptError
    \/ AcceptStopCancel
    \/ AcceptStopListener

\* ------------------------------------------------------------------------
\* The standalone client (cmd/client/main.go): the package variable quicConn
\* under quicConnLock, the monitor goroutine and the proxied sessions.  What
\* runs with the lock held in write mode is one step.
\* ------------------------------------------------------------------------
AloneFrame == UNCHANGED <<lifeVars, sessVars, sdkVars, authVars, routerVars, ruleFileVars,
                          udpHdrVars, routeVars, pxVars, socksVars, dgramVars, srvVars,
                          relayVars, acceptVars>>

\* A dial can succeed while the model has connections left.
DialOutcomes == IF gDials < MaxDials THEN BOOLEAN ELSE {FALSE}

\* main: ensureQuicConnection() on the nil handle is reconnectQuic(); then the
\* monitor is started and connections are accepted.
AloneEnsureQuicConnection ==
    /\ gMain = "init"
    /\ gMain' = "serving"
    /\ \E ok \in DialOutcomes :
          IF ok
          THEN /\ gConn' = gDials + 1
               /\ gLive' = gLive \cup {gDials + 1}
               /\ gDials' = gDials + 1
          ELSE UNCHANGED <<gConn, gLive, gDials>>
    /\ UNCHANGED <<gMon, gSes, gSesConn>>
    /\ AloneFrame

\* A connection is closed by the peer or the network.
AloneConnDies(c) ==
    /\ c \in gLive
    /\ gLive' = gLive \ {c}
    /\ UNCHANGED <<gMain, gConn, gDials, gMon, gSes, gSesConn>>
    /\ AloneFrame

\* monitorConnection under RLock: needsReconnect if quicConn is nil or its
\* context is done.
AloneMonitorCheck ==
    /\ gMain = "serving"
    /\ gMon = "sleep"
    /\ gMon' = IF gConn = 0 \/ gConn \notin gLive THEN "need" ELSE "sleep"
    /\ UNCHANGED <<gMain, gConn, gLive, gDials, gSes, gSesConn>>
    /\ AloneFrame

\* monitorConnection under Lock: the check again, then reconnectQuic().
AloneMonitorReconnect ==
    /\ gMon = "need"
    /\ gMon' = "sleep"
    /\ IF gConn = 0 \/ gConn \notin gLive
       THEN \E ok \in DialOutcomes :
               IF ok
               THEN /\ gConn' = gDials + 1
                    /\ gLive' = gLive \cup {gDials + 1}
                    /\ gDials' = gDials + 1
               ELSE UNCHANGED <<gConn, gLive, gDials>>
       ELSE UNCHANGED <<gConn, gLive, gDials>>
    /\ UNCHANGED <<gMain, gSes, gSesConn>>
    /\ AloneFrame

\* handleProxyConnection: conn := getQuicConnection()
AloneGetQuicConnection(s) ==
    /\ gMain = "serving"
    /\ gSes[s] = "start"
    /\ gSes' = [gSes EXCEPT ![s] = IF gConn = 0 THEN "nil" ELSE "have"]
    /\ gSesConn' = [gSesConn EXCEPT ![s] = gConn]
    /\ UNCHANGED <<gMain, gConn, gLive, gDials, gMon>>
    /\ AloneFrame

\* handleProxyConnection with conn == nil, under Lock: reconnectQuic() with no
\* second look at quicConn; conn = quicConn, or the failure reply and return.
AloneProxyReconnect(s) ==
    /\ gSes[s] = "nil"
    /\ \E ok \in DialOutcomes :
          IF ok
          THEN /\ gConn' = gDials + 1
               /\ gLive' = gLive \cup {gDials + 1}
               /\ gDials' = gDials + 1
               /\ gSes' = [gSes EXCEPT ![s] = "have"]
               /\ gSesConn' = [gSesConn EXCEPT ![s] = gDials + 1]
          ELSE /\ gSes' = [gSes EXCEPT ![s] = "failed"]
               /\ UNCHANGED <<gConn, gLive, gDials, gSesConn>>
    /\ UNCHANGED <<gMain, gMon>>
    /\ AloneFrame

NextAlone ==
    \/ AloneEnsureQuicConnection
    \/ \E c \in 1..MaxDials : AloneConnDies(c)
    \/ AloneMonitorCheck
    \/ AloneMonitorReconnect
    \/ \E s \in AloneSessions : AloneGetQuicConnection(s)
    \/ \E s \in AloneSessions : AloneProxyReconnect(s)

\* ------------------------------------------------------------------------
\* Sessions.  A record per accepted SOCKS5 connection:
\*   st      position of the handler goroutine
\*   sock    the accepted TCP socket: "none", "open", "appClosed" (the application
\*           closed its end), "closed" (the handler closed it)
\*   conn    the QUIC connection getQuicConnection returned (0: none)
\* and for a proxied TCP session
\*   stream  the QUIC stream: "none", "open", "closed"
\*   peer    the server ended the stream (or wrote to it)
\*   up      the goroutine copying clientConn -> stream: "none", "run", "exit"
\* for the UDP association
\*   usock   the local UDP socket: "none", "open", "closed"
\*   actx    the association's cancel() has been called
\*   ing     the read loop (local UDP -> QUIC): "none", "run", "exit"
\*   egr     the write loop (QUIC -> local UDP): "none", "run", "exit"
\*   addr    currentAddr holds an address
\*   early   the association was established before Stop was first called
\* ------------------------------------------------------------------------
NoTcp == [st |-> "none", sock |-> "none", conn |-> 0, stream |-> "none",
          peer |-> FALSE, up |-> "none", early |-> FALSE]
NoUdp == [st |-> "none", sock |-> "none", conn |-> 0, usock |-> "none",
          actx |-> FALSE, ing |-> "none", egr |-> "none", addr |-> FALSE,
          early |-> FALSE]

InitSessVars ==
    /\ tcp = [i \in TcpIds |-> NoTcp]
    /\ udp = NoUdp

\* The accept goroutine of Start is running and its listener is open.
Accepting == spc = "serving" /\ bound # 0 /\ lsnState[bound] = "open"

\* conn.OpenStreamSync(c.ctx) fails on a cancelled context or a broken connection.
OpenStreamFails(h) == cancelled \/ CtxErr(h)

AssocCtxDone_parent == cancelled
\* ctx of handleUDPAssociate: derived from c.ctx, cancelled by its own cancel().
AssocCtxDone == cancelled \/ udp.actx

\* listener.Accept() returns a connection; go c.handleSOCKS5Client(conn)
AcceptTcp(i) ==
    /\ Accepting
    /\ tcp[i].st = "none"
    /\ tcp' = [tcp EXCEPT ![i] = [NoTcp EXCEPT !.st = "hs", !.sock = "open"]]
    /\ UNCHANGED <<lifeVars, sdkVars, authVars, libVars, udp>>

\* The application closes its end of the TCP socket of session i.
AppCloseTcp(i) ==
    /\ tcp[i].sock = "open"
    /\ tcp' = [tcp EXCEPT ![i].sock = "appClosed"]
    /\ UNCHANGED <<lifeVars, sdkVars, authVars, libVars, udp>>

\* handleSOCKS5Client: the greeting and a CONNECT request for a proxied host
\* have arrived; handleTCPConnect calls proxyTCP.
TcpRequest(i) ==
    /\ tcp[i].st = "hs"
    /\ tcp[i].sock = "open"
    /\ tcp' = [tcp EXCEPT ![i].st = "proxy"]
    /\ UNCHANGED <<lifeVars, sdkVars, authVars, libVars, udp>>

\* handleSOCKS5Client: a read of the handshake fails; return, clientConn.Close().
TcpHandshakeFails(i) ==
    /\ tcp[i].st = "hs"
    /\ tcp[i].sock = "appClosed"
    /\ tcp' = [tcp EXCEPT ![i].st = "done", ![i].sock = "closed"]
    /\ UNCHANGED <<lifeVars, sdkVars, authVars, libVars, udp>>

\* proxyTCP: getQuicConnection (RLock) and OpenStreamSync; on nil or on an
\* error reply 0x05 0x04 and return.
ProxyOpenStream(i) ==
    /\ tcp[i].st = "proxy"
    /\ quicLock = {}
    /\ IF quicConn = 0 \/ OpenStreamFails(quicConn)
       THEN tcp' = [tcp EXCEPT ![i].st = "done", ![i].sock = "closed"]
       ELSE tcp' = [tcp EXCEPT ![i].st = "nego", ![i].conn = quicConn,
                               ![i].stream = "open"]
    /\ UNCHANGED <<lifeVars, sdkVars, authVars, libVars, udp>>

\* proxyTCP steps 1-5, the server answering: both status bytes 0x00 lead to the
\* success reply and the two copies; any other answer ends the session.
ProxyServerAnswers(i) ==
    /\ tcp[i].st = "nego"
    /\ ~CtxErr(tcp[i].conn)
    /\ \E ok \in BOOLEAN :
         tcp' = IF ok
                THEN [tcp EXCEPT ![i].st = "copy", ![i].up = "run",
                                 ![i].early = (stopCalls = 0)]
                ELSE [tcp EXCEPT ![i].st = "done", ![i].stream = "closed",
                                 ![i].sock = "closed"]
    /\ UNCHANGED <<lifeVars, sdkVars, authVars, libVars, udp>>

\* proxyTCP steps 1-4 on a broken connection: the stream I/O fails; return
\* (deferred CancelRead and Close of the stream, clientConn.Close()).
ProxyNegotiationBreaks(i) ==
    /\ tcp[i].st = "nego"
    /\ CtxErr(tcp[i].conn)
    /\ tcp' = [tcp EXCEPT ![i].st = "done", ![i].stream = "closed", ![i].sock = "closed"]
    /\ UNCHANGED <<lifeVars, sdkVars, authVars, libVars, udp>>

\* The server closes the stream of session i, or sends data on it.
PeerEnds(i) ==
    /\ tcp[i].st = "copy"
    /\ ~tcp[i].peer
    /\ tcp' = [tcp EXCEPT ![i].peer = TRUE]
    /\ UNCHANGED <<lifeVars, sdkVars, authVars, libVars, udp>>

\* c.copyBuffer(clientConn, stream) returns: the read of the stream ended (the
\* connection is broken, or the server closed the stream) or the write to a
\* socket the application closed failed.  proxyTCP returns: stream.CancelRead,
\* stream.Close, clientConn.Close.
ProxyDownEnds(i) ==
    /\ tcp[i].st = "copy"
    /\ CtxErr(tcp[i].conn) \/ tcp[i].peer
    /\ tcp' = [tcp EXCEPT ![i].st = "done", ![i].stream = "closed", ![i].sock = "closed"]
    /\ UNCHANGED <<lifeVars, sdkVars, authVars, libVars, udp>>

\* go c.copyBuffer(stream, clientConn) returns: the read of clientConn ended.
ProxyUpEnds(i) ==
    /\ tcp[i].up = "run"
    /\ tcp[i].sock # "open"
    /\ tcp' = [tcp EXCEPT ![i].up = "exit"]
    /\ UNCHANGED <<lifeVars, sdkVars, authVars, libVars, udp>>

\* listener.Accept() returns the connection that will ask for UDP ASSOCIATE.
AcceptUdp ==
    /\ Accepting
    /\ udp.st = "none"
    /\ udp' = [NoUdp EXCEPT !.st = "hs", !.sock = "open"]
    /\ UNCHANGED <<lifeVars, sdkVars, authVars, libVars, tcp>>

\* The application closes the controlling TCP socket.
AppCloseUdpControl ==
    /\ udp.sock = "open"
    /\ udp' = [udp EXCEPT !.sock = "appClosed"]
    /\ UNCHANGED <<lifeVars, sdkVars, authVars, libVars, tcp>>

\* handleSOCKS5Client: the greeting and a UDP ASSOCIATE request have arrived.
UdpRequest ==
    /\ udp.st = "hs"
    /\ udp.sock = "open"
    /\ udp' = [udp EXCEPT !.st = "bind"]
    /\ UNCHANGED <<lifeVars, sdkVars, authVars, libVars, tcp>>

\* handleSOCKS5Client: a read of the handshake fails; return, clientConn.Close().
UdpHandshakeFails ==
    /\ udp.st = "hs"
    /\ udp.sock = "appClosed"
    /\ udp' = [udp EXCEPT !.st = "done", !.sock = "closed"]
    /\ UNCHANGED <<lifeVars, sdkVars, authVars, libVars, tcp>>

\* handleUDPAssociate: net.ListenUDP fails; return.
UdpBindFails ==
    /\ udp.st = "bind"
    /\ udp' = [udp EXCEPT !.st = "done", !.sock = "closed"]
    /\ UNCHANGED <<lifeVars, sdkVars, authVars, libVars, tcp>>

\* handleUDPAssociate: ListenUDP, the reply, getQuicConnection (RLock); with no
\* connection return (deferred udpConn.Close), otherwise derive ctx and start
\* the read loop and the write loop, then block in io.Copy(io.Discard, clientConn).
UdpAssociate ==
    /\ udp.st = "bind"
    /\ quicLock = {}
    /\ IF quicConn = 0
       THEN udp' = [udp EXCEPT !.st = "done", !.usock = "closed", !.sock = "closed"]
       ELSE udp' = [udp EXCEPT !.st = "control", !.usock = "open", !.conn = quicConn,
                               !.ing = "run", !.egr = "run",
                               !.early = (stopCalls = 0)]
    /\ UNCHANGED <<lifeVars, sdkVars, authVars, libVars, tcp>>

\* Read loop: a datagram of the application arrives; currentAddr.Store(addr),
\* conn.SendDatagram.
UdpIngressDatagram ==
    /\ udp.ing = "run"
    /\ udp.usock = "open"
    /\ ~udp.addr
    /\ udp' = [udp EXCEPT !.addr = TRUE]
    /\ UNCHANGED <<lifeVars, sdkVars, authVars, libVars, tcp>>

\* Read loop: ctx.Err() != nil at the head of the loop (reached at the latest
\* when the 5 s read deadline expires), or ReadFromUDP fails on the closed socket.
UdpIngressExit ==
    /\ udp.ing = "run"
    /\ AssocCtxDone \/ udp.usock = "closed"
    /\ udp' = [udp EXCEPT !.ing = "exit"]
    /\ UNCHANGED <<lifeVars, sdkVars, authVars, libVars, tcp>>

\* Write loop: ctx.Done(), or conn.ReceiveDatagram(ctx) returns an error.
UdpEgressExit ==
    /\ udp.egr = "run"
    /\ AssocCtxDone \/ CtxErr(udp.conn)
    /\ udp' = [udp EXCEPT !.egr = "exit"]
    /\ UNCHANGED <<lifeVars, sdkVars, authVars, libVars, tcp>>

\* io.Copy(io.Discard, clientConn) returns (the application closed the
\* controlling socket): cancel(); return: udpConn.Close(), clientConn.Close().
UdpControlEnds ==
    /\ udp.st = "control"
    /\ udp.sock = "appClosed"
    /\ udp' = [udp EXCEPT !.st = "done", !.actx = TRUE, !.usock = "closed",
                          !.sock = "closed"]
    /\ UNCHANGED <<lifeVars, sdkVars, authVars, libVars, tcp>>

\* Steps of the sessions that wait for nothing outside the client.
SessProgramStep ==
    \/ \E i \in TcpIds : ProxyOpenStream(i)
    \/ \E i \in TcpIds : TcpHandshakeFails(i)
    \/ \E i \in TcpIds : ProxyNegotiationBreaks(i)
    \/ \E i \in TcpIds : ProxyDownEnds(i)
    \/ \E i \in TcpIds : ProxyUpEnds(i)
    \/ UdpHandshakeFails
    \/ UdpAssociate
    \/ UdpIngressExit
    \/ UdpEgressExit
    \/ UdpControlEnds

\* Steps of the sessions taken on an event of the application, the server or
\* the operating system.
SessEnvStep ==
    \/ \E i \in TcpIds : AcceptTcp(i)
    \/ \E i \in TcpIds : AppCloseTcp(i)
    \/ \E i \in TcpIds : TcpRequest(i)
    \/ \E i \in TcpIds : ProxyServerAnswers(i)
    \/ \E i \in TcpIds : PeerEnds(i)
    \/ AcceptUdp
    \/ AppCloseUdpControl
    \/ UdpRequest
    \/ UdpBindFails
    \/ UdpIngressDatagram

\* The running client: Start is in its main loop on an open listener, the
\* first dial succeeded and the supervisor is at its select.
InitSess ==
    /\ spc = "serving"
    /\ mpc = [m \in Monitors |-> IF m = 1 THEN "idle" ELSE "off"]
    /\ tpc = "idle"
    /\ cancelled = FALSE
    /\ quicConn = 1
    /\ quicLock = {}
    /\ connState = [i \in ConnIds |-> IF i = 1 THEN "live" ELSE "unborn"]
    /\ closeCalls = [i \in ConnIds |-> 0]
    /\ listener = 1
    /\ bound = 1
    /\ lsnState = [l \in LsnIds |-> IF l = 1 THEN "open" ELSE "unborn"]
    /\ lsnCloses = [l \in LsnIds |-> 0]
    /\ starts = 1
    /\ stopCalls = 0
    /\ stopsReturned = 0
    /\ dialCtx = "live"
    /\ InitSessVars
    /\ InitSdkVars
    /\ InitAuthVars
    /\ InitLibVars

\* The life-cycle steps of a running client.
RunningLifeStep ==
    \/ StartReturnCancelled
    \/ StartAcceptError
    \/ \E m \in Monitors : MonitorExit(m)
    \/ \E m \in Monitors : MonitorTick(m)
    \/ \E m \in Monitors : MonitorRecheck(m)
    \/ \E m \in Monitors : MonitorDialEnd(m)
    \/ StopCancel
    \/ StopListener
    \/ StopQuic
    \/ \E i \in ConnIds : ConnDies(i)

NextSess ==
    \/ RunningLifeStep
    \/ SessProgramStep
    \/ SessEnvStep

Init == InitLife /\ InitSessVars /\ InitSdkVars /\ InitAuthVars /\ InitLibVars

Spec == Init /\ [][NextLife]_vars

SpecSess == InitSess /\ [][NextSess]_vars

\* The UDP association of a running client on its own, with Stop and the death
\* of the connection.  The handler of the association and its two loops are
\* goroutines: each takes its next step when that step stays possible.
NextAssoc ==
    \/ AcceptUdp
    \/ AppCloseUdpControl
    \/ UdpRequest
    \/ UdpHandshakeFails
    \/ UdpBindFails
    \/ UdpAssociate
    \/ UdpIngressDatagram
    \/ UdpIngressExit
    \/ UdpEgressExit
    \/ UdpControlEnds
    \/ StopCancel
    \/ StopListener
    \/ StopQuic
    \/ \E i \in ConnIds : ConnDies(i)

SpecAssoc ==
    /\ InitSess
    /\ [][NextAssoc]_vars
    /\ WF_vars(UdpAssociate)
    /\ WF_vars(UdpControlEnds)
    /\ WF_vars(UdpIngressExit)
    /\ WF_vars(UdpEgressExit)

SpecSdk == Init /\ [][NextSdk]_vars

SpecAuth == Init /\ [][NextAuth]_vars

SpecRouter == Init /\ [][NextRouter]_vars

SpecRules == Init /\ [][NextRules]_vars

SpecUdpHeader == Init /\ [][NextUdpHeader]_vars

SpecRoute == Init /\ [][NextRoute]_vars

SpecProxy == Init /\ [][NextProxy]_vars

SpecSocks == Init /\ [][NextSocks]_vars

SpecDgram == Init /\ [][NextDgram]_vars

SpecAlone == Init /\ [][NextAlone]_vars

\* Every goroutine of the accept loop and of Stop takes the step it can take.
SpecAccept ==
    /\ Init
    /\ [][NextAccept]_vars
    /\ WF_vars(AcceptFails) /\ WF_vars(AcceptSend) /\ WF_vars(AcceptCancelled)
    /\ WF_vars(MainCancelled) /\ WF_vars(MainHandle) /\ WF_vars(MainAcceptError)
    /\ WF_vars(AcceptStopListener)

SpecRelay == Init /\ [][NextRelay]_vars

\* The write loop is a goroutine of its own: once ReceiveDatagram can fail it
\* does.
SpecRelayLive == SpecRelay /\ \A a \in First : WF_vars(RelayEgressExit(a))

SpecShared == Init /\ [][NextShared]_vars

\* Every goroutine of the connection runs when it can.
SpecSrv ==
    /\ Init
    /\ [][NextSrv]_vars
    /\ WF_vars(SrvAcceptStream)
    /\ WF_vars(SrvListenUDP)
    /\ WF_vars(SrvDatagramsReturn)
    /\ WF_vars(SrvReceiveDatagram)
    /\ WF_vars(SrvReadFromUDP)
    /\ WF_vars(SrvConnectionReturns)

\* ------------------------------------------------------------------------
\* Steps of the life-cycle model, as seen from outside
\* ------------------------------------------------------------------------
\* Monitor m takes a tick: it leaves the select and performs the first check.
TickStep(m) == AtSelect(m) /\ mpc'[m] \in {"want", "passed"} /\ mpc'[m] # mpc[m]
\* Monitor m performs the second check, under the write lock.
RecheckStep(m) == mpc[m] = "want" /\ mpc'[m] # "want"
\* The dial of monitor m returns.
DialEndStep(m) == mpc[m] = "dialing" /\ mpc'[m] # "dialing"
\* Start's ensureQuicConnection performs its check.
EnsureStep == spc = "ensure" /\ spc' # "ensure"
\* A step of Client.Stop.
StopStep == tpc' # tpc \/ stopsReturned' # stopsReturned

\* ------------------------------------------------------------------------
\* Claims about the life cycle
\* ------------------------------------------------------------------------

\* C1: at most one non-terminated QUIC connection dialed by the instance
\* exists, it is the one the handle holds, and a dial runs only while the
\* handle is absent or its context reports an error.
C1_AtMostOneConnection ==
    /\ Cardinality(LiveConns) <= 1
    /\ \A i \in LiveConns : quicConn = i
    /\ quicLock # {} => ~Healthy(quicConn)

C1_Witness == connState[1] = "dead" /\ quicConn = 2 /\ connState[2] = "live"

\* C2: once Stop has returned, no dial is started and the connection handle
\* is absent.
C2_NoDialAfterStop ==
    /\ dialCtx # "stopped"
    /\ stopsReturned > 0 => quicConn = 0

\* The part of C2 the code keeps: the handle is absent once Stop has returned.
HandleAbsentAfterStop == stopsReturned > 0 => quicConn = 0

\* C3: a tick that finds the handle absent or in a terminal state dials
\* exactly once, with the write lock held and after the re-check under that
\* lock; a failed dial leaves the handle unchanged (so the following tick
\* finds it terminal again).
C3_TickRedialsOnce ==
    /\ [](\A m \in Monitors : mpc[m] = "dialing" => quicLock = {m})
    /\ [][\A m \in Monitors :
            /\ TickStep(m) /\ ~Healthy(quicConn) => mpc'[m] = "want"
            /\ RecheckStep(m) /\ ~Healthy(quicConn)
                 => mpc'[m] = "dialing" /\ quicLock' = {m} /\ quicConn' = quicConn
            /\ DialEndStep(m) => mpc'[m] \in {"dialedOk", "dialedFail"}
            /\ DialEndStep(m) /\ mpc'[m] = "dialedFail" => quicConn' = quicConn
         ]_vars

C3_Witness == \E m \in Monitors : mpc[m] = "dialedFail" /\ quicConn # 0 /\ CtxErr(quicConn)

\* C4: while the handle is present and its context reports no error, a tick
\* and ensureQuicConnection perform no dial and leave the handle unchanged.
C4_HealthyNoDial ==
    [][ /\ \A m \in Monitors : TickStep(m) /\ Healthy(quicConn)
              => mpc'[m] = "passed" /\ quicConn' = quicConn /\ connState' = connState
                 /\ quicLock' = {}
        /\ EnsureStep /\ Healthy(quicConn)
              => spc' = "kept" /\ quicConn' = quicConn /\ connState' = connState
                 /\ quicLock' = {}
      ]_vars

C4_Witness == spc = "kept" /\ Healthy(quicConn) /\ \E m \in Monitors : mpc[m] = "passed"

\* C5: once one Start and one Stop on the same instance have both returned,
\* the instance holds no open listener and no open QUIC connection.
C5_StartStopReleaseAll ==
    (starts = 1 /\ spc = "idle" /\ stopCalls = 1 /\ tpc = "idle")
        => OpenListeners = {} /\ LiveConns = {}

\* The state SpecSess starts in is a state of Spec.
SessEntryState ==
    /\ spc = "serving" /\ mpc[1] = "idle" /\ tpc = "idle" /\ ~cancelled
    /\ quicConn = 1 /\ quicLock = {} /\ connState[1] = "live"
    /\ \A i \in ConnIds : i # 1 => connState[i] = "unborn"
    /\ \A i \in ConnIds : closeCalls[i] = 0
    /\ listener = 1 /\ bound = 1 /\ lsnState[1] = "open"
    /\ \A l \in LsnIds : l # 1 => lsnState[l] = "unborn"
    /\ \A m \in Monitors : m # 1 => mpc[m] = "off"
    /\ starts = 1 /\ stopCalls = 0 /\ stopsReturned = 0 /\ dialCtx = "live"

\* The steps the client takes by itself: they wait for no call of the
\* application, no event of the network and no answer of the server.
ClientStep ==
    \/ SessProgramStep
    \/ StartReturnCancelled
    \/ \E m \in Monitors : MonitorExit(m) \/ MonitorTick(m) \/ MonitorRecheck(m)
                             \/ MonitorDialEnd(m)
    \/ StopListener
    \/ StopQuic

\* A session released everything it owns and all its goroutines are gone.
TcpReleased(i) ==
    /\ tcp[i].st = "done" /\ tcp[i].up # "run"
    /\ tcp[i].sock = "closed" /\ tcp[i].stream # "open"
UdpReleased ==
    /\ udp.st = "done" /\ udp.ing # "run" /\ udp.egr # "run"
    /\ udp.sock = "closed" /\ udp.usock # "open"

\* C6: if Stop is called while proxied TCP sessions and a UDP association are
\* active, they all terminate and release their sockets and goroutines with
\* no further action of the application: once Stop has returned and no step
\* of the client is left to take, every such session is released.
C6_StopReleasesSessions ==
    (stopsReturned > 0 /\ ~ENABLED ClientStep)
        => /\ \A i \in TcpIds : tcp[i].early => TcpReleased(i)
           /\ udp.early => UdpReleased

\* The part of C6 the code keeps: the proxied TCP sessions are released.
TcpReleasedAfterStop ==
    (stopsReturned > 0 /\ ~ENABLED ClientStep)
        => \A i \in TcpIds : tcp[i].early => TcpReleased(i)

\* C8: IsRunning returns true only when a client is running; in particular it
\* returns false after a Start that failed to bind the listener and after the
\* client's Start loop has returned.  (A client whose Start is still on its way
\* to net.Listen is counted as running here.)
C8_IsRunningExact ==
    (queries > 0 /\ statusReply) => statusHeld \in {"new", "starting", "serving"}

\* C7: Stop is idempotent: the listener and every connection are closed at
\* most once, and a further Stop, called in the state a Stop left, changes
\* nothing.
C7_StopIdempotent ==
    /\ [](/\ \A i \in ConnIds : closeCalls[i] <= 1
          /\ \A l \in LsnIds : lsnCloses[l] <= 1)
    /\ [][(StopStep /\ stopsReturned >= 1 /\ listener = 0)
            => UNCHANGED <<cancelled, listener, quicConn, connState, lsnState,
                           closeCalls, lsnCloses>>]_vars

C7_Witness == stopsReturned = 2 /\ closeCalls[1] = 1 /\ lsnCloses[1] = 1

\* ------------------------------------------------------------------------
\* The server's token check (SpecAuth)
\* ------------------------------------------------------------------------

\* The first write of the handler on the stream is the status byte 0x00.  (A
\* write is counted when the handler issues it.)
AuthOk == out # <<>> /\ out[1] = 0

\* l is the token with white space before and after it.
TrimmedIsToken(l) ==
    \E i, j \in 0..Len(l) :
        /\ i + Len(UAP_TOKEN) + j = Len(l)
        /\ \A p \in 1..i : l[p] \in WhiteSpace
        /\ \A p \in (Len(l) - j + 1)..Len(l) : l[p] \in WhiteSpace
        /\ SubSeq(l, i + 1, i + Len(UAP_TOKEN)) = UAP_TOKEN

\* l is the first line of what the client sent, up to and with its '\n'.
IsFirstLine(l) ==
    /\ l # <<>>
    /\ Len(l) <= Len(sent)
    /\ l = SubSeq(sent, 1, Len(l))
    /\ l[Len(l)] = NL
    /\ \A p \in 1..(Len(l) - 1) : l[p] # NL

\* Token verification has failed on the stream.
VerifyFailed == lineState = "err" \/ (lineState = "ok" /\ ~TrimmedIsToken(line))

\* C9: the server writes the auth status byte 0x00 on a stream if and only if
\* it read the newline-terminated first line and that line, white space
\* trimmed, equals the configured token; when verification fails (mismatch, no
\* complete line, read timeout) it never writes 0x00, reads no byte of a
\* destination frame and dials no target on that stream.
C9_AuthByteIffToken ==
    /\ AuthOk <=> (lineState = "ok" /\ TrimmedIsToken(line))
    /\ lineState = "ok" => IsFirstLine(line)
    /\ vpc = "verify" => lineState = "pending" /\ out = <<>>
    /\ ~AuthOk => /\ \A p \in 1..Len(out) : out[p] # 0
                  /\ frameReads = 0
                  /\ ~dialed

\* A line with white space around the token was accepted, and one stream before
\* it was refused.
C9_Witness ==
    /\ strm = 2
    /\ vpc = "frame"
    /\ out = <<0>>
    /\ Len(line) > Len(UAP_TOKEN) + 1
    /\ delaysSeen # {}

\* C10: when token verification fails the server waits a delay of 2 to 5
\* seconds, writes nothing before the delay has elapsed, then writes exactly one
\* of the four canned responses (400, 404, 500, 503) and closes the stream.
C10_DelayedCannedResponse ==
    /\ \A d \in delaysSeen : 2 <= d /\ d <= 5
    /\ VerifyFailed =>
         /\ vpc \in {"sleep", "linger", "closed"}
         /\ delay \in delaysSeen
         /\ slept <= delay
         /\ slept < delay => out = <<>>
         /\ vpc = "sleep" => out = <<>>
         /\ vpc \in {"linger", "closed"} =>
              /\ slept = delay
              /\ Len(out) = 1
              /\ out[1] \in {400, 404, 500, 503}
              /\ frameReads = 0

\* Two refused streams with two different delays, the second one answered and
\* closed.
C10_Witness ==
    /\ VerifyFailed
    /\ vpc = "closed"
    /\ Len(out) = 1
    /\ Cardinality(delaysSeen) >= 2

\* ------------------------------------------------------------------------
\* The token on the wire (SpecAuth)
\* ------------------------------------------------------------------------

\* The client's first write, token and '\n' (proxyTCP), is all that was sent,
\* and verifyToken has its line.
TokenWriteRead == lineState = "ok" /\ sent # <<>> /\ sent[Len(sent)] = NL

\* C11: when the server reads what the client wrote for a token (the token and
\* a newline), the token it obtains (verifyToken's trimmed line) is exactly the
\* token the client wrote, for every token, white space and embedded newlines
\* included.
C11_FrameRoundTrip ==
    TokenWriteRead => TrimSpace(line) = SubSeq(sent, 1, Len(sent) - 1)

\* For a token without white space the server obtains the token written.
PlainTokenRoundTrip ==
    (TokenWriteRead /\ \A p \in 1..(Len(sent) - 1) : sent[p] \notin WhiteSpace)
        => TrimSpace(line) = SubSeq(sent, 1, Len(sent) - 1)

\* ------------------------------------------------------------------------
\* The router (SpecRouter)
\* ------------------------------------------------------------------------

\* s lowercased and trimmed
Norm(s) == ToLower(TrimSpace(s))

\* s ends with suffix
EndsWith(s, suffix) ==
    /\ Len(suffix) <= Len(s)
    /\ SubSeq(s, Len(s) - Len(suffix) + 1, Len(s)) = suffix

\* host equals rule or ends with "." + rule, both lowercased and trimmed
SuffixMatch(host, rule) ==
    \/ Norm(host) = Norm(rule)
    \/ EndsWith(Norm(host), <<Dot>> \o Norm(rule))

\* rule, lowercased and trimmed, has a character other than '.'
HasLabel(rule) == \E p \in 1..Len(Norm(rule)) : Norm(rule)[p] # Dot

\* C12 as stated: for every rule r given to AddRule and every host h that
\* equals r or ends with "." + r after lowercasing and trimming, ShouldProxy(h)
\* returns true.
C12_SuffixMatchesAll ==
    qAsked => \A r \in rules : SuffixMatch(qHost, r) => qRes

\* C12 amended: the same for every rule r that has at least one label (a
\* character other than '.' after lowercasing and trimming).
C12_SuffixMatches ==
    qAsked => \A r \in rules : (HasLabel(r) /\ SuffixMatch(qHost, r)) => qRes

\* A host in upper case that is a subdomain of a rule was found to match.
C12_Witness ==
    /\ qAsked
    /\ qRes
    /\ qHost # Norm(qHost)
    /\ \E r \in rules : HasLabel(r) /\ EndsWith(Norm(qHost), <<Dot>> \o Norm(r))

\* s lowercased, trimmed and without one trailing dot
NormStripped(s) == TrimSuffixDot(Norm(s))

\* The positions of s that are not a leading dot, a trailing dot or a dot after
\* a dot.
KeptAt(s, p) ==
    \/ s[p] # Dot
    \/ /\ p > 1
       /\ s[p - 1] # Dot
       /\ \E q \in (p + 1)..Len(s) : s[q] # Dot

RECURSIVE KeptFrom(_, _)
KeptFrom(s, p) ==
    IF p > Len(s) THEN <<>>
    ELSE (IF KeptAt(s, p) THEN <<s[p]>> ELSE <<>>) \o KeptFrom(s, p + 1)

\* s lowercased and trimmed, its non-empty labels joined by single dots
Canon(s) == KeptFrom(Norm(s), 1)

NoEffectiveRule == \A r \in rules : ~HasLabel(r)

\* C14: ShouldProxy of the empty host is false; AddRule of a rule without
\* labels (empty, white space, only dots) changes nothing, so the root is never
\* terminal and a router without an effective rule answers false for every
\* host.
C14_EmptyHostEmptyRule ==
    /\ [](/\ <<>> \notin root.ends
          /\ (qAsked /\ TrimSpace(qHost) = <<>>) => ~qRes
          /\ NoEffectiveRule => root = NewRouter /\ ~qRes)
    /\ [][\A d \in Strs : (RouterAddRule(d) /\ ~HasLabel(d)) => root' = root]_vars

\* Two rules without labels were added and a host with a label was looked up.
C14_Witness ==
    /\ Cardinality(rules) = 2
    /\ NoEffectiveRule
    /\ qAsked
    /\ HasLabel(qHost)
    /\ ~qRes

\* ------------------------------------------------------------------------
\* Rule files (SpecRules)
\* ------------------------------------------------------------------------

\* The line up to its first '#'.
BeforeComment(l) == IF IndexOf(l, Hash) = 0 THEN l ELSE SubSeq(l, 1, IndexOf(l, Hash) - 1)

\* The tree the file's lines give with their comments removed.
RECURSIVE TreeOfLines(_, _, _)
TreeOfLines(t, lines, k) ==
    IF k > Len(lines) THEN t
    ELSE TreeOfLines(AddRule(t, BeforeComment(lines[k])), lines, k + 1)

\* C15: loading a rule source, everything from a '#' to the end of its line is
\* a comment and contributes no rule and no label; blank lines contribute no
\* rule; a missing file is no error and leaves the router empty.
C15_CommentsToEndOfLine ==
    loadState = "ok" =>
        /\ fileExists => root = TreeOfLines(NewRouter, ScanLines(fileText), 1)
        /\ \A path \in root.nodes : \A k \in 1..Len(path) : \A p \in 1..Len(path[k]) :
               path[k][p] # Hash
        /\ ~fileExists => root = NewRouter

\* A missing file, and a file of blank lines and lines that start with '#',
\* leave the router empty.
LoadSkipsBlankAndPrefixed ==
    (/\ loadState = "ok"
     /\ \/ ~fileExists
        \/ \A k \in 1..Len(ScanLines(fileText)) :
             LET l == TrimSpace(ScanLines(fileText)[k]) IN l = <<>> \/ l[1] = Hash)
        => root = NewRouter

\* ------------------------------------------------------------------------
\* The SOCKS5 UDP header (SpecUdpHeader)
\* ------------------------------------------------------------------------

\* The two addresses are the same IP (the 4-byte and the 16-byte form of an IPv4
\* address are one address, as for net.IP.Equal).
SameIP(x, y) ==
    LET wide(ip) == IF Len(ip) = 4 THEN <<0, 0, 0, 0, 0, 0, 0, 0, 0, 0, 255, 255>> \o ip ELSE ip
    IN wide(x) = wide(y)

\* C16: building a SOCKS5 UDP packet for (ip, port, payload) and parsing it
\* gives back the same ip, port and payload, for every IPv4 and IPv6 address,
\* every port and every payload, the empty one included; an IPv4 address is sent
\* with ATYP 0x01 and any other with ATYP 0x04.
C16_UdpHeaderRoundTrip ==
    /\ upc \in {"built", "parsed"} =>
         /\ Len(wire) >= 4
         /\ wire[4] = (IF Len(uIp) = 4 \/ SameIP(uIp, SubSeq(uIp, 13, 16)) THEN 1 ELSE 4)
    /\ upc = "parsed" =>
         /\ parsed.ok
         /\ SameIP(parsed.ip, uIp)
         /\ parsed.port = uPort
         /\ parsed.payload = uPayload

\* An IPv6 address with a port above 255 and an empty payload made the round
\* trip.
C16_Witness ==
    /\ upc = "parsed"
    /\ Len(uIp) = 16
    /\ wire[4] = 4
    /\ uPort = 65535
    /\ uPayload = <<>>
    /\ parsed.ok

\* ------------------------------------------------------------------------
\* The end of a UDP association (SpecAssoc)
\* ------------------------------------------------------------------------

\* C17: once the application has closed the controlling TCP socket of a UDP
\* association, its read loop and its write loop both terminate and the local
\* UDP socket is closed, eventually.
C17_ControlCloseEndsAssociation ==
    (udp.st = "control" /\ udp.sock = "appClosed")
        ~> (udp.ing = "exit" /\ udp.egr = "exit" /\ udp.usock = "closed")

\* The association ended on the close of its controlling socket, with the
\* client running and its connection alive.
C17_Witness ==
    /\ udp.st = "done"
    /\ udp.actx
    /\ udp.ing = "exit"
    /\ udp.egr = "exit"
    /\ udp.usock = "closed"
    /\ ~cancelled
    /\ ~CtxErr(udp.conn)

\* ------------------------------------------------------------------------
\* The routing decision (SpecRoute)
\* ------------------------------------------------------------------------

\* The host is exactly one of localhost, 127.0.0.1 and ::1.
IsLocalName(host) == host \in {Localhost, Loopback4, Loopback6}

Wrote(w) == \E k \in 1..Len(strmW) : strmW[k].what = w
WroteOk(w) == \E k \in 1..Len(strmW) : strmW[k].what = w /\ strmW[k].ok

\* The kinds of the writes to the stream come in the order token, length,
\* address, payload.
StreamWritesInOrder ==
    LET rank(w) == CASE w = "token" -> 1 [] w = "len" -> 2 [] w = "addr" -> 3 [] OTHER -> 4
    IN /\ \A k \in 1..(Len(strmW) - 1) : rank(strmW[k].what) <= rank(strmW[k + 1].what)
       /\ \A w \in {"token", "len", "addr"} : Count([k \in 1..Len(strmW) |-> strmW[k].what], w) <= 1

\* C19: on the proxy path the steps come in this order, each only after the
\* one before it succeeded: write the token line; read the auth status 0x00;
\* write the length byte and the address; read the dial status 0x00; write the
\* SOCKS5 success reply; copy.  The success reply is never written, and no
\* payload is written to the stream, before both status bytes were read as 0x00.
C19_ProxyStepsInOrder ==
    /\ StreamWritesInOrder
    /\ Len(statusR) >= 1 => WroteOk("token")
    /\ Wrote("len") => Len(statusR) >= 1 /\ statusR[1] = 0
    /\ Wrote("addr") => WroteOk("len")
    /\ Len(statusR) >= 2 => WroteOk("len") /\ WroteOk("addr")
    /\ Count(sockW, "reply00") > 0 => statusR = <<0, 0>>
    /\ (Wrote("payload") \/ Count(sockW, "data") > 0 \/ upc2 # "none") =>
           statusR = <<0, 0>> /\ sockW[1] = "reply00"

\* The same with the two writes of step 3 counted when they were made: the
\* order of the steps, and no success reply and no payload before both status
\* bytes were read as 0x00.
ProxyStepsInOrderIssued ==
    /\ StreamWritesInOrder
    /\ Len(statusR) >= 1 => WroteOk("token")
    /\ Wrote("len") => Len(statusR) >= 1 /\ statusR[1] = 0
    /\ Len(statusR) >= 2 => Wrote("len") /\ Wrote("addr")
    /\ Count(sockW, "reply00") > 0 => statusR = <<0, 0>>
    /\ (Wrote("payload") \/ Count(sockW, "data") > 0 \/ upc2 # "none") =>
           statusR = <<0, 0>> /\ sockW[1] = "reply00"

\* ------------------------------------------------------------------------
\* The end of a TCP session (SpecSess)
\* ------------------------------------------------------------------------

\* C20: a TCP session ends as soon as either direction of its copy ends: once
\* the client-to-remote direction has ended (the application closed its
\* socket) the handler returns and releases the accepted socket and the
\* stream, without waiting for the remote-to-client direction to end on its
\* own.  So when no step of the client is left to take, a session whose
\* client-to-remote copy has returned is over and released.
C20_EitherDirectionEndsSession ==
    \A i \in TcpIds :
        (tcp[i].up = "exit" /\ ~ENABLED SessProgramStep) =>
            /\ tcp[i].st = "done"
            /\ tcp[i].sock = "closed"
            /\ tcp[i].stream = "closed"

\* When the remote-to-client direction ends the session is over without
\* waiting for the other direction.
DownEndEndsSession ==
    \A i \in TcpIds :
        (tcp[i].st = "copy" /\ (tcp[i].peer \/ CtxErr(tcp[i].conn))) => ENABLED ProxyDownEnds(i)


\* ---------------------------------------------------------------------------
\* C21: after a successful token check the read deadline set by verifyToken
\* is no longer in force: an authenticated stream on which the client is idle
\* (it sent no FIN) is closed before the dial only because of a byte the server
\* read (a length byte of 0), never because the deadline passed.
C21_NoDeadlineAfterAuth ==
    [][(AuthOk /\ ~fin /\ vpc \in {"frame", "addr"} /\ vpc' = "closed")
           => consumed' > consumed]_vars


\* ---------------------------------------------------------------------------
\* C22: on the proxy path the length byte written to the stream equals the
\* number of address bytes written after it, and for a target address of more
\* than 255 bytes neither a length byte nor an address is written.
C22_LengthByteMatchesAddress ==
    /\ \A k \in 1..Len(stW) :
          stW[k].what = "len" =>
              /\ k < Len(stW)
              /\ stW[k + 1].what = "addr"
              /\ stW[k + 1].n = stW[k].n
    /\ targetLen > 255 => \A k \in 1..Len(stW) : stW[k].what \notin {"len", "addr"}

\* ---------------------------------------------------------------------------
\* The greeting half of C23: a greeting with another VER ends the connection
\* before the request is read.
GreetingVersionChecked ==
    (ver1 # 0 /\ ver1 # 5) => hpc = "closed" /\ head = <<>> /\ cliW = <<>>

\* C23: a connection whose VER byte is not 0x05, in the greeting or in the
\* 4-byte request, is closed and no command handler is dispatched for it.
C23_VersionChecked ==
    /\ GreetingVersionChecked
    /\ (head # <<>> /\ head[1] # 5) =>
           hpc = "closed" /\ parseRes = "none" /\ binds = 0

\* ---------------------------------------------------------------------------
\* C24: a request with a CMD other than 0x01 and 0x03 gets the reply 0x05 0x07
\* and the connection is closed; no stream is opened, no target is dialed and
\* no UDP socket is bound.
C24_UnsupportedCommand ==
    (head # <<>> /\ head[2] \notin {1, 3}) =>
        /\ hpc = "closed"
        /\ cliW = <<MethodReply, Reply(7)>>
        /\ openRes = "none"
        /\ stW = <<>>
        /\ dials = 0
        /\ binds = 0
        /\ parseRes = "none"

C24_Witness ==
    /\ head # <<>>
    /\ head[2] = 2
    /\ hpc = "closed"
    /\ cliW[Len(cliW)] = Reply(7)

\* ---------------------------------------------------------------------------
\* C25: a CONNECT request with an unknown ATYP, or whose address bytes cannot
\* be read, is answered with the failure reply 0x05 0x01 before the close.
C25_MalformedConnectReply ==
    parseRes \in {"atyp", "read"} =>
        /\ hpc = "closed"
        /\ cliW[Len(cliW)] = Reply(1)

\* ---------------------------------------------------------------------------
\* C26: with no tunnel handle, or when opening the stream fails, the session
\* replies 0x05 0x04 and closes, having written nothing to a stream; no step
\* of the session dials the tunnel or changes the tunnel handle.
C26_NoTunnelReply ==
    /\ [](openRes \in {"nil", "fail"} =>
              /\ hpc = "closed"
              /\ cliW = <<MethodReply, Reply(4)>>
              /\ stW = <<>>)
    /\ [][hpc' # hpc => tunnel' = tunnel /\ tunnelDials' = tunnelDials]_vars

\* The monitor's dial failed, the session found no handle and gave up.
C26_Witness ==
    /\ openRes = "nil"
    /\ tunnel = "nil"
    /\ tunnelDials > 0
    /\ hpc = "closed"
    /\ cliW[Len(cliW)] = Reply(4)

\* The handle was there and OpenStreamSync failed.
OpenStreamFailed ==
    /\ openRes = "fail"
    /\ tunnel = "live"
    /\ hpc = "closed"


\* ---------------------------------------------------------------------------
\* C27: on the proxy path an auth status that is not 0x00, or cannot be read,
\* ends the session with no SOCKS5 reply and no destination frame written; a
\* dial status that is not 0x00 ends it with the one reply 0x05 0x04.
C27_StatusBytesRefuse ==
    /\ (Len(statusR) >= 1 /\ statusR[1] # 0) =>
           /\ ppc = "done"
           /\ Len(statusR) = 1
           /\ sockW = <<>>
           /\ ~Wrote("len")
           /\ ~Wrote("addr")
           /\ upc2 = "none"
    /\ (Len(statusR) = 2 /\ statusR[2] # 0) =>
           /\ ppc = "done"
           /\ sockW = <<"reply04">>
           /\ upc2 = "none"

\* The server refused the token.
C27_Witness ==
    /\ statusR = <<1>>
    /\ ppc = "done"
    /\ WroteOk("token")

\* The server could not reach the target.
DialRefused ==
    /\ statusR = <<0, 1>>
    /\ ppc = "done"
    /\ sockW = <<"reply04">>


\* ---------------------------------------------------------------------------
\* C28: on the server, after a successful token check, a length byte of 0 is
\* answered 0x01 and the stream is closed with no dial; a failed dial is
\* answered 0x01 and the stream is closed; a successful dial is answered 0x00
\* once and only then the copy starts.  A stream carries at most one dial
\* status byte, and none before the auth status byte.
C28_DialStatus ==
    /\ out # <<>> => out[1] \in {0} \cup Canned
    /\ Len(out) <= 2
    /\ Len(out) = 2 => out[1] = 0 /\ out[2] \in {0, 1}
    /\ (AuthOk /\ frameReads >= 1 /\ need = 0) =>
           vpc = "closed" /\ out = <<0, 1>> /\ ~dialed
    /\ dialed => Len(out) = 2
    /\ (Len(out) = 2 /\ out[2] = 1) => vpc = "closed"
    /\ vpc = "copy" => dialed /\ out = <<0, 0>>

\* A frame with the length byte 0 was refused.
C28_Witness ==
    /\ AuthOk
    /\ frameReads = 1
    /\ need = 0
    /\ out = <<0, 1>>
    /\ vpc = "closed"
    /\ ~dialed

\* The dial succeeded and the copy runs.
CopyAfterDial == vpc = "copy" /\ dialed /\ out = <<0, 0>>
\* The dial failed.
DialFailed == dialed /\ out = <<0, 1>> /\ vpc = "closed"


\* ------------------------------------------------------------------------
\* Inbound datagrams on the server (SpecDgram)
\* ------------------------------------------------------------------------

\* The loop body is over for the datagram.
DgramHandled == dpc \in {"done", "replied"}

\* The short half of C29: a datagram of fewer than 4 bytes is dropped.
ShortDatagramDropped ==
    (DgramHandled /\ Len(dgram) < 4) => dsent = <<>> /\ dback = <<>>

\* C29: a datagram whose SOCKS5 UDP header has FRAG # 0, and a datagram of
\* fewer than 4 bytes, is dropped: nothing is forwarded to a target and nothing
\* is sent back to the client.
C29_DropFragmented ==
    (DgramHandled /\ (Len(dgram) < 4 \/ dgram[3] # 0)) => dsent = <<>> /\ dback = <<>>

\* C30: parseSOCKS5UDPHeader takes the address, the port and the payload at
\* the offsets of the ATYP (counted from 0 -- 0x01: address 4..8, port 8..10,
\* payload from 10; 0x03: dlen at 4, domain 5..5+dlen, port at 5+dlen, payload
\* from 7+dlen; 0x04: address 4..20, port 20..22, payload from 22); it returns
\* an error for a datagram too short for its ATYP, for another ATYP and for
\* dlen = 0; and it reads no index outside the datagram.
C30_ParseOffsets ==
    (DgramHandled /\ dgram # <<>>) =>
        LET d == dgram
            n == Len(dgram)
            r == dparsed
        IN /\ r.reads \subseteq 1..n
           /\ n < 4 => ~r.ok
           /\ (n >= 4 /\ d[4] = 1) =>
                  IF n < 10 THEN ~r.ok
                  ELSE /\ r.ok
                       /\ r.ip = SubSeq(d, 5, 8)
                       /\ r.port = d[9] * 256 + d[10]
                       /\ r.payload = SubSeq(d, 11, n)
           /\ (n >= 4 /\ d[4] = 3) =>
                  IF n < 5 \/ d[5] = 0 \/ n < 7 + d[5] THEN ~r.ok
                  ELSE /\ r.ok <=> dres # <<>>
                       /\ r.ok =>
                             /\ r.domain = SubSeq(d, 6, 5 + d[5])
                             /\ r.ip = dres
                             /\ r.port = d[6 + d[5]] * 256 + d[7 + d[5]]
                             /\ r.payload = SubSeq(d, 8 + d[5], n)
           /\ (n >= 4 /\ d[4] = 4) =>
                  IF n < 22 THEN ~r.ok
                  ELSE /\ r.ok
                       /\ r.ip = SubSeq(d, 5, 20)
                       /\ r.port = d[21] * 256 + d[22]
                       /\ r.payload = SubSeq(d, 23, n)
           /\ (n >= 4 /\ d[4] \notin {1, 3, 4}) => ~r.ok

\* A domain datagram whose declared length is shorter than the name that was
\* sent: the port and the payload are taken right after the declared length.
C30_Witness ==
    /\ DgramHandled
    /\ Len(dgram) >= 10
    /\ dgram[4] = 3
    /\ dgram[5] = 1
    /\ dgram[7] = 98
    /\ dparsed.ok
    /\ dparsed.domain = <<97>>
    /\ dparsed.port = 98 * 256
    /\ dparsed.payload # <<>>

\* A datagram one byte short of its IPv6 header was refused.
ShortV6Refused ==
    /\ DgramHandled
    /\ Len(dgram) = 21
    /\ dgram[4] = 4
    /\ ~dparsed.ok


\* ------------------------------------------------------------------------
\* A QUIC connection of the server closes (SpecSrv)
\* ------------------------------------------------------------------------

\* Nothing of the connection is left running.
SrvAllDone ==
    /\ sAccept = "exit"
    /\ sC2T # "run"
    /\ sT2C # "run"
    /\ sHD = "returned"
    /\ sUdp # "open"

\* The stream-accept goroutine ends when the connection closes.
SrvAcceptEnds == (sConn = "closed") ~> (sAccept = "exit")

\* C31: when the QUIC connection of a handleConnection closes, the
\* stream-accept goroutine and both datagram loops terminate, handleDatagrams
\* returns and the UDP socket of the connection is closed.
C31_ConnCloseEndsTasks == (sConn = "closed") ~> SrvAllDone


\* The handler of association a got as far as the tunnel check.
AssocChecked(a) == apc[a] \in {"run", "ended"} /\ aSock[a].st # "none"

\* C32: on UDP ASSOCIATE one socket is bound and the success reply, BND.ADDR
\* 127.0.0.1 with the bound port in network order, is written before the
\* tunnel handle is read; with no handle the association ends with neither
\* loop started and the socket closed.
C32_ReplyThenTunnelCheck ==
    /\ [](\A a \in First :
             /\ aSock[a].st # "none" =>
                   /\ aSock[a].port \in RelayPorts
                   /\ aReply[a] = <<5, 0, 0, 1, 127, 0, 0, 1,
                                    aSock[a].port \div 256, aSock[a].port % 256>>
             /\ aSock[a].st = "none" => aReply[a] = <<>> /\ aConn[a] = 0
             /\ AssocChecked(a) /\ aConn[a] = 0 =>
                   /\ apc[a] = "ended"
                   /\ aSock[a].st = "closed"
                   /\ aIn[a] = "none"
                   /\ aOut[a] = "none")
    /\ [][\A a \in First :
             /\ apc[a] = "idle" => aConn'[a] = 0 /\ aIn'[a] = "none" /\ aOut'[a] = "none"
             /\ aConn'[a] # aConn[a] => aReply[a] # <<>> /\ aReply'[a] = aReply[a]]_vars

C32_Witness ==
    \E a \in First :
        /\ AssocChecked(a)
        /\ aConn[a] = 0
        /\ aSock[a].st = "closed"
        /\ Len(aReply[a]) = 10


\* C33: every datagram of the application has its source address stored and
\* is sent byte for byte, whatever its size; the read loop runs as long as the
\* handler does.
C33_IngressForwardsAll ==
    \A a \in First :
        /\ aLastRead[a] # NoDgram =>
              /\ aCell[a] = aLastRead[a].src
              /\ aLastUp[a] # NoDgram
              /\ aLastUp[a].len = aLastRead[a].len
        /\ apc[a] = "run" => aIn[a] = "run"

\* The write loop of association a takes the datagram in flight on c.
EgressTakes(a, c) ==
    /\ c \in rLive
    /\ c \in rLive'
    /\ rDown[c] # NoDgram
    /\ rDown'[c] = NoDgram

\* C34: the write loop writes each datagram it receives, unchanged, to the
\* address stored last, and drops it while none is stored; nothing is written
\* before the first datagram of the application.
C34_EgressToLastSource ==
    /\ [](\A a \in First :
             /\ aLastRead[a] # NoDgram /\ aLastRead[a].len > 0 => aCell[a] = aLastRead[a].src
             /\ aCell[a] = 0 /\ aLastDown[a] # NoDgram => aLastDown[a].to = 0
             /\ aLastDown[a] # NoDgram /\ aLastDown[a].to # 0 => aLastRead[a] # NoDgram)
    /\ [][\A a \in First, c \in RelayConns :
             EgressTakes(a, c) =>
                 aLastDown'[a] = [for |-> rDown[c].for, len |-> rDown[c].len,
                                  conn |-> c, to |-> aCell[a]]]_vars

\* A datagram was written to one address, and the other one was stored after.
C34_Witness ==
    \E a \in First :
        /\ aLastDown[a] # NoDgram
        /\ aLastDown[a].to = 2
        /\ aCell[a] = 1

\* A datagram came before any of the application and was dropped.
C34_Dropped ==
    \E a \in First : aLastDown[a] # NoDgram /\ aLastDown[a].to = 0 /\ aLastRead[a] = NoDgram

\* C35: with two associations on one connection, a datagram of the server is
\* taken by the write loop of the association it answers.
C35_AnswerToItsAssociation ==
    \A a \in Assocs : aLastDown[a] # NoDgram => aLastDown[a].for = a

\* The connection of association a is closed and a later one is stored.
Superseded(a) == aConn[a] # 0 /\ aConn[a] \notin rLive /\ rTunnel \in rLive

C36_StartOnOwnInstance ==
    /\ ~sdkPanic
    /\ pendingGo = 0 => \A i \in MadeInstances : inst[i].st # "new"


\* C37: every accepted socket is in the end handed to handleSOCKS5Client or
\* closed, also when Stop runs with sockets queued in connChan, and the accept
\* goroutine ends after Stop.
C37_AcceptedHandledOrClosed ==
    /\ \A n \in 1..MaxAccepts : kSock[n] = "open" ~> kSock[n] \in {"handled", "closed"}
    /\ kStop = "done" ~> kAcc = "exit"


\* C38: in the standalone client the sessions and the monitor never hold more
\* than one open connection, and an open connection in quicConn is never
\* replaced by a dial.
C38_OneLiveConnection ==
    /\ [](Cardinality(gLive) <= 1)
    /\ [][gConn' # gConn => gConn \notin gLive]_vars


\* The tree of a set of rules: the paths of their normal forms.
TreeOf(added) ==
    LET paths == {Reversed(splitDomain(d)) : d \in added} \ {<<>>}
    IN [nodes |-> {<<>>} \cup UNION {{SubSeq(p, 1, k) : k \in 1..Len(p)} : p \in paths},
        ends |-> paths]

\* C40: the tree, and with it every answer of ShouldProxy, is that of the set of
\* normal forms of the rules added, in whatever order and however often; adding
\* a rule again changes nothing, and no added rule turns an answer from true to
\* false.
C40_RulesAsASet ==
    /\ [](/\ root = TreeOf(rules)
          /\ \A d \in rules : AddRule(root, d) = root
          /\ qAsked => qRes = ShouldProxy(TreeOf(rules), qHost))
    /\ [][root' # root => \A h \in Strs : ShouldProxy(root, h) => ShouldProxy(root', h)]_vars

\* Two rules of one normal form were added, and a host matched.
C40_Witness ==
    /\ \E d1, d2 \in rules :
          /\ d1 # d2
          /\ splitDomain(d1) = splitDomain(d2)
          /\ splitDomain(d1) # <<>>
    /\ qAsked
    /\ qRes

====
